---- MODULE Spec2Model ----
(***************************************************************************)
(* deploynaut: the policy evaluator (src/src/policy/evaluator.ts) and the  *)
(* two webhook handlers that feed it (deployment_protection_rule.requested *)
(* and pull_request_review.submitted).                                     *)
(*                                                                         *)
(* Conventions of the translation                                          *)
(*   - an optional value (`x?: T`, undefined) is a sequence of length 0 or *)
(*     1: <<>> is undefined, <<v>> is v;                                   *)
(*   - a RuleResult is one of "true", "false", "skipped"; a rejected       *)
(*     promise (a thrown Error) is "throws";                               *)
(*   - a string that the code only compares is a TLA+ string; a string the *)
(*     code searches or slices (review body, pattern) is a sequence of     *)
(*     one-character strings;                                              *)
(*   - `this` is the record of the PolicyEvaluator's fields that the       *)
(*     evaluation reads.                                                   *)
(***************************************************************************)
EXTENDS Integers, Sequences, FiniteSets, TLC

VARIABLES
    config,      \* PolicyConfig handed to the evaluator / the handler
    context,     \* PolicyEvaluator.context (this.context), last value assigned
    github,      \* what listOrganizationMembers / listTeamMembers answer
    input,       \* the argument of the call under way (a PolicyContext or a webhook payload with the API data behind it)
    pc,          \* position of the call under way
    result,      \* what the last evaluate call returned ("true", "false", "throws", "none")
    calls,       \* every evaluateRule / evaluateNamedRule call of the last evaluate, with its outcome
    evaluations, \* results of the evaluate calls of one webhook delivery, in order
    requests,    \* API requests issued by the handler of one delivery, in order
    tasks        \* per (workflow run, environment) task of the review handler

vars == <<config, context, github, input, pc, result, calls, evaluations, requests, tasks>>

----------------------------------------------------------------------------
(* Optional values and small helpers                                       *)

None == <<>>
Some(v) == <<v>>
IsSome(o) == Len(o) = 1
IsNone(o) == Len(o) = 0

Range(s) == {s[i] : i \in 1..Len(s)}

\* Array.prototype.includes on an array of strings
Includes(list, v) == \E i \in 1..Len(list) : list[i] = v

\* sequences over S of length at most n
SeqUpTo(S, n) == UNION {[1..k -> S] : k \in 0..n}

----------------------------------------------------------------------------
(* Strings the code transforms                                             *)

\* String.prototype.toLowerCase on the review states GitHub sends (REST
\* answers in upper case, webhook payloads in lower case).
toLowerCase(s) ==
    CASE s = "APPROVED" -> "approved"
      [] s = "Approved" -> "approved"
      [] s = "COMMENTED" -> "commented"
      [] s = "CHANGES_REQUESTED" -> "changes_requested"
      [] s = "DISMISSED" -> "dismissed"
      [] OTHER -> s

\* toLowerCase on one character of a body or a pattern
lowerChar(c) ==
    CASE c = "D" -> "d" [] c = "E" -> "e" [] c = "P" -> "p" [] c = "L" -> "l"
      [] c = "O" -> "o" [] c = "Y" -> "y" [] c = "G" -> "g" [] c = "T" -> "t"
      [] c = "M" -> "m"
      [] OTHER -> c

\* `if (s)` on a string: the empty string is falsy
Truthy(s) == s # ""

----------------------------------------------------------------------------
(* Pattern matching inside evaluateRequirements (parsePattern, regex.test) *)
(* The regular expressions understood here are the literal ones: ordinary  *)
(* characters, "." (any character), a leading "^", a trailing "$"; a "["   *)
(* that is never closed is a SyntaxError, as is a repeated flag.           *)

RegexFlags == {"g", "i", "m", "u", "y"}

\* index of the last "/" of a pattern, 0 when there is none
lastSlash(pattern) ==
    LET at == {i \in 1..Len(pattern) : pattern[i] = "/"}
    IN  IF at = {} THEN 0 ELSE CHOOSE i \in at : \A j \in at : j <= i

\* pattern.match(/\/[gimuy]*$/): a "/" followed by flag characters only
endsWithSlashFlags(pattern) ==
    LET k == lastSlash(pattern)
    IN  k > 0 /\ \A j \in (k + 1)..Len(pattern) : pattern[j] \in RegexFlags

\* new RegExp(source, flags) throws a SyntaxError
invalidRegExp(source, flags) ==
    \/ \E i \in 1..Len(source) :
          /\ source[i] = "["
          /\ ~\E j \in (i + 1)..Len(source) : source[j] = "]"
    \/ \E i, j \in 1..Len(flags) : i < j /\ flags[i] = flags[j]

\* parsePattern: [throws, source, literal, ignoreCase]
parsePattern(pattern) ==
    LET k == lastSlash(pattern)
        isRegex == /\ Len(pattern) > 0 /\ pattern[1] = "/"
                   /\ endsWithSlashFlags(pattern)
                   /\ k >= 3               \* /^\/(.+)\/([gimuy]*)$/ needs a non-empty interior
        source == SubSeq(pattern, 2, k - 1)
        flags == SubSeq(pattern, k + 1, Len(pattern))
    IN  IF isRegex
        THEN [throws |-> invalidRegExp(source, flags), source |-> source,
              literal |-> FALSE, ignoreCase |-> Includes(flags, "i")]
        ELSE [throws |-> FALSE, source |-> pattern, literal |-> TRUE, ignoreCase |-> TRUE]

\* regex.test(body): an unanchored search unless the source anchors itself
regexTest(regex, body) ==
    LET src == regex.source
        atStart == ~regex.literal /\ Len(src) > 0 /\ src[1] = "^"
        atEnd == ~regex.literal /\ Len(src) > 0 /\ src[Len(src)] = "$"
        core == SubSeq(src, IF atStart THEN 2 ELSE 1, IF atEnd THEN Len(src) - 1 ELSE Len(src))
        same(p, c) == \/ (~regex.literal /\ p = ".")
                      \/ p = c
                      \/ (regex.ignoreCase /\ lowerChar(p) = lowerChar(c))
    IN  \E s \in 1..(Len(body) + 1) :
           /\ s + Len(core) - 1 <= Len(body)
           /\ atStart => s = 1
           /\ atEnd => s + Len(core) - 1 = Len(body)
           /\ \A i \in 1..Len(core) : same(core[i], body[s + i - 1])

----------------------------------------------------------------------------
(* Membership (isUserInAny, isUserInOrganization, isUserInTeam)            *)
(* this.githubContext answers a member lookup with a list of logins or     *)
(* with an error: [throws |-> BOOLEAN, logins |-> set of logins].          *)

isUserInOrganization(this, user, organization) ==
    LET answer == this.githubContext.organizations[organization]
    IN  IF answer.throws THEN FALSE ELSE user \in answer.logins

\* mutant: a lookup that throws counts as membership
isUserInTeam_failOpen(this, user, team) ==
    LET answer == this.githubContext.teams[team]
    IN  IF answer.throws THEN TRUE ELSE user \in answer.logins

isUserInTeam(this, user, team) ==
    LET answer == this.githubContext.teams[team]
    IN  IF answer.throws THEN FALSE ELSE user \in answer.logins

isUserInAny(this, user, users, organizations, teams) ==
    \/ Includes(users, user)
    \/ \E i \in 1..Len(organizations) : isUserInOrganization(this, user, organizations[i])
    \/ \E i \in 1..Len(teams) : isUserInTeam(this, user, teams[i])

----------------------------------------------------------------------------
(* Conditions of a named rule (`if`)                                       *)

\* mutant: a name in `matches` passes without a look at `not_matches`
evaluateEnvironmentCondition_matchesWins(this, condition) ==
    LET env == this.context.environment
    IN  IF IsNone(env) \/ ~Truthy(env[1].name) THEN FALSE
        ELSE IF IsSome(condition.matches)
        THEN Includes(condition.matches[1], env[1].name)
        ELSE ~(IsSome(condition.not_matches) /\ Includes(condition.not_matches[1], env[1].name))

evaluateEnvironmentCondition(this, condition) ==
    LET env == this.context.environment
    IN  IF IsNone(env) \/ ~Truthy(env[1].name) THEN FALSE
        ELSE IF IsSome(condition.matches) /\ ~Includes(condition.matches[1], env[1].name) THEN FALSE
        ELSE IF IsSome(condition.not_matches) /\ Includes(condition.not_matches[1], env[1].name) THEN FALSE
        ELSE TRUE

\* mutant: a commit without verification data counts as verified
verified_unlessAbsent(commit) == IsNone(commit.verification) \/ commit.verification[1].verified

\* commit.verification?.verified
verified(commit) == IsSome(commit.verification) /\ commit.verification[1].verified

evaluateHasValidSignaturesCondition(this) ==
    LET commits == this.context.commits
    IN  IF Len(commits) = 0 THEN FALSE
        ELSE \A i \in 1..Len(commits) : verified(commits[i])

validateCommitSignature(this, commit, policy) ==
    IF ~verified(commit) THEN FALSE
    ELSE IF IsNone(commit.committer) THEN FALSE
    ELSE isUserInAny(this, commit.committer[1].login,
                     policy.users, policy.organizations, policy.teams)

evaluateHasValidSignaturesByCondition(this, condition) ==
    LET commits == this.context.commits
    IN  \A i \in 1..Len(commits) : validateCommitSignature(this, commits[i], condition)

\* commit.author?.login ?? ''
loginOf(who) == IF IsSome(who) THEN who[1].login ELSE ""

evaluateOnlyHasAuthorsInCondition(this, condition) ==
    LET commits == this.context.commits
    IN  IF Len(commits) = 0 THEN FALSE
        ELSE \A i \in 1..Len(commits) :
                isUserInAny(this, loginOf(commits[i].author),
                            condition.users, condition.organizations, condition.teams)

\* mutant: only the authors are looked at
evaluateOnlyHasContributorsInCondition_authorsOnly(this, condition) ==
    LET commits == this.context.commits
    IN  IF Len(commits) = 0 THEN FALSE
        ELSE \A i \in 1..Len(commits) :
                isUserInAny(this, loginOf(commits[i].author),
                            condition.users, condition.organizations, condition.teams)

evaluateOnlyHasContributorsInCondition(this, condition) ==
    LET commits == this.context.commits
    IN  IF Len(commits) = 0 THEN FALSE
        ELSE \A i \in 1..Len(commits) :
                /\ isUserInAny(this, loginOf(commits[i].author),
                               condition.users, condition.organizations, condition.teams)
                /\ isUserInAny(this, loginOf(commits[i].committer),
                               condition.users, condition.organizations, condition.teams)

\* Every condition the object holds must pass; ref_patterns, which the type
\* declares, is read nowhere.
evaluateConditions(this, conditions) ==
    /\ IsSome(conditions.environment) =>
          evaluateEnvironmentCondition(this, conditions.environment[1])
    /\ conditions.has_valid_signatures =>
          evaluateHasValidSignaturesCondition(this)
    /\ IsSome(conditions.has_valid_signatures_by) =>
          evaluateHasValidSignaturesByCondition(this, conditions.has_valid_signatures_by[1])
    /\ IsSome(conditions.only_has_authors_in) =>
          evaluateOnlyHasAuthorsInCondition(this, conditions.only_has_authors_in[1])
    /\ IsSome(conditions.only_has_contributors_in) =>
          evaluateOnlyHasContributorsInCondition(this, conditions.only_has_contributors_in[1])

----------------------------------------------------------------------------
(* Requirements of a named rule (`requires`, `methods`)                    *)

\* mutant: the sha is read where the context does not hold it
deploymentShaOf_undefined(ctx) == ""

\* this.context.deployment?.commit?.sha, "" when undefined
deploymentShaOf(ctx) == IF IsSome(ctx.deployment) THEN ctx.deployment[1].commit.sha ELSE ""

\* mutant: only the commit under review is looked at
isByContributor_reviewedCommitOnly(review, commits) ==
    \E i \in 1..Len(commits) :
        /\ commits[i].sha = review.commit_id
        /\ \/ IsSome(commits[i].author) /\ review.user.id = commits[i].author[1].id
           \/ IsSome(commits[i].committer) /\ review.user.id = commits[i].committer[1].id

\* the reviewer is the author or the committer of some commit of the context
isByContributor(review, commits) ==
    \E i \in 1..Len(commits) :
        \/ IsSome(commits[i].author) /\ review.user.id = commits[i].author[1].id
        \/ IsSome(commits[i].committer) /\ review.user.id = commits[i].committer[1].id

\* mutant: a pattern that is no regular expression matches nothing
somePatternMatches_swallows(patterns, body) ==
    IF \E i \in 1..Len(patterns) :
          ~parsePattern(patterns[i]).throws /\ regexTest(parsePattern(patterns[i]), body)
    THEN "true" ELSE "false"

\* methods.github_review_comment_patterns.some(...): "true", "false" or "throws"
somePatternMatches(patterns, body) ==
    LET hit(i) == parsePattern(patterns[i]).throws \/ regexTest(parsePattern(patterns[i]), body)
        hits == {i \in 1..Len(patterns) : hit(i)}
        first == CHOOSE i \in hits : \A j \in hits : i <= j
    IN  IF hits = {} THEN "false"
        ELSE IF parsePattern(patterns[first]).throws THEN "throws"
        ELSE "true"

\* mutant: an approved review is kept whatever `methods` says
isValidReview_anyApproval(this, review, methods) ==
    LET deploymentSha == deploymentShaOf(this.context)
    IN  IF Truthy(deploymentSha) /\ review.commit_id # deploymentSha THEN "false"
        ELSE IF isByContributor(review, this.context.commits) THEN "false"
        ELSE IF toLowerCase(review.state) = "approved" THEN "true"
        ELSE IF /\ IsSome(methods) /\ IsSome(methods[1].github_review_comment_patterns)
                /\ IsSome(review.body) /\ Len(review.body[1]) > 0
                /\ toLowerCase(review.state) = "commented"
             THEN somePatternMatches(methods[1].github_review_comment_patterns[1], review.body[1])
        ELSE "false"

\* the callback of reviews.filter: "true" (kept), "false" (dropped) or "throws"
isValidReview(this, review, methods) ==
    LET deploymentSha == deploymentShaOf(this.context)
    IN  IF Truthy(deploymentSha) /\ review.commit_id # deploymentSha THEN "false"
        ELSE IF isByContributor(review, this.context.commits) THEN "false"
        ELSE IF /\ IsSome(methods) /\ methods[1].github_review
                /\ toLowerCase(review.state) = "approved" THEN "true"
        ELSE IF /\ IsSome(methods) /\ IsSome(methods[1].github_review_comment_patterns)
                /\ IsSome(review.body) /\ Len(review.body[1]) > 0
                /\ toLowerCase(review.state) = "commented"
             THEN somePatternMatches(methods[1].github_review_comment_patterns[1], review.body[1])
        ELSE "false"

\* the reviews that count toward requirements.count
approvedReviews(this, requirements, methods) ==
    SelectSeq(this.context.reviews,
              LAMBDA review :
                  /\ isValidReview(this, review, methods) = "true"
                  /\ isUserInAny(this, review.user.login, requirements.users,
                                 requirements.organizations, requirements.teams))

\* mutant: the reviewers are counted, not the reviews
evaluateRequirements_distinctReviewers(this, requirements, methods) ==
    LET reviews == this.context.reviews
        approved == approvedReviews(this, requirements, methods)
    IN  IF \E i \in 1..Len(reviews) : isValidReview(this, reviews[i], methods) = "throws"
        THEN "throws"
        ELSE IF Cardinality({approved[i].user.login : i \in 1..Len(approved)}) >= requirements.count
        THEN "true" ELSE "false"

\* mutant: exactly requirements.count reviews are asked for
evaluateRequirements_exactCount(this, requirements, methods) ==
    LET reviews == this.context.reviews
    IN  IF \E i \in 1..Len(reviews) : isValidReview(this, reviews[i], methods) = "throws"
        THEN "throws"
        ELSE IF Len(approvedReviews(this, requirements, methods)) = requirements.count
        THEN "true" ELSE "false"

evaluateRequirements(this, requirements, methods) ==
    LET reviews == this.context.reviews
    IN  IF \E i \in 1..Len(reviews) : isValidReview(this, reviews[i], methods) = "throws"
        THEN "throws"
        ELSE IF Len(approvedReviews(this, requirements, methods)) >= requirements.count
        THEN "true" ELSE "false"

----------------------------------------------------------------------------
(* Rules: policy.approval, and/or groups, bare lists, named rules          *)
(* An ApprovalRule is                                                      *)
(*   [t |-> "string", name]          a reference to a named rule           *)
(*   [t |-> "array", items]          a bare list                           *)
(*   [t |-> "object", and, or]       an object; `and` and `or` are optional*)

Str(name) == [t |-> "string", name |-> name]
Arr(items) == [t |-> "array", items |-> items]
Obj(and, or) == [t |-> "object", and |-> and, or |-> or]

\* this.config.approval_rules.find((rule) => rule.name === name)
findNamedRule(this, name) ==
    LET rules == this.config.approval_rules
        at == {i \in 1..Len(rules) : rules[i].name = name}
    IN  IF at = {} THEN None ELSE Some(rules[CHOOSE i \in at : \A j \in at : i <= j])

\* evaluateRequirements runs after `await this.evaluateConditions(rule.if)`
\* when the rule has an `if`: it then reads the this.context of the moment the
\* continuation runs (this.resumed); without an `if` it runs in the same turn
\* as evaluate() and reads the context evaluate() assigned.
contextOfRequirements(this, rule) ==
    IF IsSome(rule.if) THEN [this EXCEPT !.context = this.resumed] ELSE this

\* mutant: a rule whose conditions are not met fails
evaluateNamedRule_unmetFails(this, rule) ==
    IF IsSome(rule.if) /\ ~evaluateConditions(this, rule.if[1]) THEN "false"
    ELSE IF IsNone(rule.requires) \/ rule.requires[1].count < 1 THEN "true"
    ELSE evaluateRequirements(contextOfRequirements(this, rule), rule.requires[1], rule.methods)

evaluateNamedRule(this, rule) ==
    IF IsSome(rule.if) /\ ~evaluateConditions(this, rule.if[1]) THEN "skipped"
    ELSE IF IsNone(rule.requires) \/ rule.requires[1].count < 1 THEN "true"
    ELSE evaluateRequirements(contextOfRequirements(this, rule), rule.requires[1], rule.methods)

\* mutant: the filter keeps the skipped results
nonSkipped_keepsAll(results) == results

\* results.filter((r) => r !== 'skipped')
nonSkipped(results) == SelectSeq(results, LAMBDA r : r # "skipped")

\* mutant: a member that passes hides the rejection of another
anyThrows_unlessOnePasses(results) ==
    /\ \E i \in 1..Len(results) : results[i] = "throws"
    /\ ~\E i \in 1..Len(results) : results[i] = "true"

\* a rejected member rejects Promise.all
anyThrows(results) == \E i \in 1..Len(results) : results[i] = "throws"

\* mutant: `every` in the place of `some`
orOf_every(results) ==
    IF \E i \in 1..Len(results) : results[i] = "throws" THEN "throws"
    ELSE IF \A i \in 1..Len(results) : results[i] = "skipped" THEN "skipped"
    ELSE IF \A i \in 1..Len(results) : results[i] \in {"true", "skipped"} THEN "true"
    ELSE "false"

\* mutant: the first member that is not skipped decides
orOf_firstDecides(results) ==
    IF \E i \in 1..Len(results) : results[i] = "throws" THEN "throws"
    ELSE IF \A i \in 1..Len(results) : results[i] = "skipped" THEN "skipped"
    ELSE LET first == CHOOSE i \in 1..Len(results) :
                          /\ results[i] # "skipped"
                          /\ \A j \in 1..(i - 1) : results[j] = "skipped"
         IN  results[first]

\* nonSkippedResults.some((r) => r === true)
orOf(results) ==
    IF anyThrows(results) THEN "throws"
    ELSE IF Len(nonSkipped(results)) = 0 THEN "skipped"
    ELSE IF \E i \in 1..Len(results) : results[i] = "true" THEN "true"
    ELSE "false"

\* mutant: `some` in the place of `every`
andOf_some(results) ==
    IF \E i \in 1..Len(results) : results[i] = "throws" THEN "throws"
    ELSE IF \A i \in 1..Len(results) : results[i] = "skipped" THEN "skipped"
    ELSE IF \E i \in 1..Len(results) : results[i] = "true" THEN "true"
    ELSE "false"

\* nonSkippedResults.every((r) => r === true)
andOf(results) ==
    IF anyThrows(results) THEN "throws"
    ELSE IF Len(nonSkipped(results)) = 0 THEN "skipped"
    ELSE IF \A i \in 1..Len(nonSkipped(results)) : nonSkipped(results)[i] = "true" THEN "true"
    ELSE "false"

RECURSIVE evaluateRule(_, _)

\* rules.map((rule) => this.evaluateRule(rule))
mapEvaluateRule(this, rules) == [i \in 1..Len(rules) |-> evaluateRule(this, rules[i])]

evaluateRules(this, rules) == orOf(mapEvaluateRule(this, rules))

\* mutant: a rule of unknown format is skipped
evaluateRule_unknownSkips(this, rule) ==
    IF rule.t = "string"
    THEN LET namedRule == findNamedRule(this, rule.name)
         IN  IF IsNone(namedRule) THEN "throws"
             ELSE evaluateNamedRule(this, namedRule[1])
    ELSE IF rule.t = "object" /\ IsSome(rule.and)
    THEN andOf(mapEvaluateRule(this, rule.and[1]))
    ELSE IF rule.t = "array"
    THEN evaluateRules(this, rule.items)
    ELSE IF rule.t = "object" /\ IsSome(rule.or)
    THEN evaluateRules(this, rule.or[1])
    ELSE "skipped"

evaluateRule(this, rule) ==
    IF rule.t = "string"
    THEN LET namedRule == findNamedRule(this, rule.name)
         IN  IF IsNone(namedRule) THEN "throws"
             ELSE evaluateNamedRule(this, namedRule[1])
    ELSE IF rule.t = "object" /\ IsSome(rule.and)
    THEN andOf(mapEvaluateRule(this, rule.and[1]))
    ELSE IF rule.t = "array"
    THEN evaluateRules(this, rule.items)
    ELSE IF rule.t = "object" /\ IsSome(rule.or)
    THEN evaluateRules(this, rule.or[1])
    ELSE "false"

\* mutant: no approval rule allows the deployment
evaluate_emptyAllows(this) ==
    LET approvalRules == this.config.policy.approval
    IN  IF IsNone(approvalRules) \/ Len(approvalRules[1]) = 0 THEN "true"
        ELSE LET r == evaluateRules(this, approvalRules[1])
             IN  IF r = "throws" THEN "throws"
                 ELSE IF r = "true" THEN "true" ELSE "false"

\* evaluate(context), after this.context = context
evaluate(this) ==
    LET approvalRules == this.config.policy.approval
    IN  IF IsNone(approvalRules) \/ Len(approvalRules[1]) = 0 THEN "false"
        ELSE LET r == evaluateRules(this, approvalRules[1])
             IN  IF r = "throws" THEN "throws"
                 ELSE IF r = "true" THEN "true" ELSE "false"

\* The rules on which one evaluateRule(rule) call calls evaluateRule, itself
\* included: every member of the list it maps over, whatever the members return.
RECURSIVE ruleCalls(_)
ruleCalls(rule) ==
    LET members == IF rule.t = "object" /\ IsSome(rule.and) THEN rule.and[1]
                   ELSE IF rule.t = "array" THEN rule.items
                   ELSE IF rule.t = "object" /\ IsSome(rule.or) THEN rule.or[1]
                   ELSE <<>>
    IN  {rule} \cup UNION {ruleCalls(members[i]) : i \in 1..Len(members)}

\* What one evaluate() call evaluated, as its log lines tell: each
\* evaluateRule call with what it returned, each evaluateNamedRule call with
\* what it returned, and each evaluateRequirements call with the reviews it
\* found eligible (none when the filter threw) and what it returned.
callsOf(this) ==
    LET approvalRules == this.config.policy.approval
        top == IF IsNone(approvalRules) \/ Len(approvalRules[1]) = 0 THEN <<>>
               ELSE approvalRules[1]
        rules == UNION {ruleCalls(top[i]) : i \in 1..Len(top)}
        named == {findNamedRule(this, r.name)[1] :
                     r \in {x \in rules : x.t = "string" /\ IsSome(findNamedRule(this, x.name))}}
        required == {n \in named :
                        /\ ~(IsSome(n.if) /\ ~evaluateConditions(this, n.if[1]))
                        /\ ~(IsNone(n.requires) \/ n.requires[1].count < 1)}
    IN  {[rule |-> r, result |-> evaluateRule(this, r)] : r \in rules}
        \cup {[named |-> n.name, result |-> evaluateNamedRule(this, n)] : n \in named}
        \cup {[requires |-> n.name,
               eligible |->
                   IF evaluateRequirements(contextOfRequirements(this, n),
                                           n.requires[1], n.methods) = "throws"
                   THEN <<>>
                   ELSE approvedReviews(contextOfRequirements(this, n),
                                        n.requires[1], n.methods),
               result |-> evaluateRequirements(contextOfRequirements(this, n),
                                               n.requires[1], n.methods)] : n \in required}

----------------------------------------------------------------------------
(* The accounts, commits and reviews the inputs are drawn from             *)

alice == [id |-> 1, login |-> "alice"]
bob == [id |-> 2, login |-> "bob"]
carol == [id |-> 3, login |-> "carol"]

Commit(sha, author, committer, verification) ==
    [sha |-> sha, author |-> author, committer |-> committer, verification |-> verification]

Review(id, user, state, body, commit_id) ==
    [id |-> id, user |-> user, state |-> state, body |-> body, commit_id |-> commit_id]

signed == Some([verified |-> TRUE, reason |-> "valid"])
unsigned == Some([verified |-> FALSE, reason |-> "unsigned"])

Deployment(ref, environment, event, sha) ==
    [ref |-> ref, environment |-> environment, event |-> event, commit |-> [sha |-> sha]]

PolicyContext(environment, deployment, commits, reviews) ==
    [environment |-> environment, deployment |-> deployment,
     commits |-> commits, reviews |-> reviews]

Requirement(count, users, organizations, teams) ==
    [count |-> count, users |-> users, organizations |-> organizations, teams |-> teams]

Methods(github_review, github_review_comment_patterns) ==
    [github_review |-> github_review,
     github_review_comment_patterns |-> github_review_comment_patterns]

NoCondition ==
    [ref_patterns |-> None, environment |-> None, has_valid_signatures |-> FALSE,
     has_valid_signatures_by |-> None, only_has_authors_in |-> None,
     only_has_contributors_in |-> None]

NamedRule(name, if, requires, methods) ==
    [name |-> name, if |-> if, requires |-> requires, methods |-> methods]

PolicyConfig(approval, approval_rules) ==
    [policy |-> [approval |-> approval], approval_rules |-> approval_rules]

\* the organization and the team of the inputs, and what the API lists for them
Answer(throws, logins) == [throws |-> throws, logins |-> logins]
Directory(org, team) ==
    [organizations |-> [o \in {"acme"} |-> org], teams |-> [t \in {"acme/security"} |-> team]]

\* the PolicyEvaluator on which evaluate(ctx) runs to its end in one turn
ThisOf(cfg, ctx, gh) == [config |-> cfg, context |-> ctx, resumed |-> ctx, githubContext |-> gh]

----------------------------------------------------------------------------
(* Evaluation of rule trees: the inputs                                    *)

MaxNodes == 3     \* rules (references and groups) in policy.approval

\* "ruleA" needs one approving review by alice; "ruleB" applies to production
\* only and needs one approving review by bob; "missing" is defined nowhere.
ruleA == NamedRule("ruleA", None,
                   Some(Requirement(1, <<"alice">>, <<>>, <<>>)), Some(Methods(TRUE, None)))
onlyProduction ==
    [NoCondition EXCEPT !.environment =
        Some([matches |-> Some(<<"production">>), not_matches |-> None])]
ruleB == NamedRule("ruleB", Some(onlyProduction),
                   Some(Requirement(1, <<"bob">>, <<>>, <<>>)), Some(Methods(TRUE, None)))
TreeRules == <<ruleA, ruleB>>
TreeNames == {"ruleA", "ruleB", "missing"}

RECURSIVE Trees(_), Forests(_)
\* the rules made of exactly n rules
Trees(n) ==
    IF n = 1
    THEN {Str(name) : name \in TreeNames}
         \cup {Arr(<<>>), Obj(None, None), Obj(Some(<<>>), None), Obj(None, Some(<<>>)),
               Obj(Some(<<>>), Some(<<>>))}
    ELSE {Arr(f) : f \in Forests(n - 1)}
         \cup {Obj(Some(f), None) : f \in Forests(n - 1)}
         \cup {Obj(None, Some(f)) : f \in Forests(n - 1)}
         \cup UNION {{Obj(Some(f), Some(g)) : f \in Forests(k), g \in Forests(n - 1 - k)} :
                        k \in 0..(n - 1)}
\* the rule lists made of exactly n rules
Forests(n) ==
    IF n = 0 THEN {<<>>}
    ELSE UNION {{<<t>> \o f : t \in Trees(k), f \in Forests(n - k)} : k \in 1..n}

Approvals == UNION {Forests(n) : n \in 0..MaxNodes}

approvedBy(id, user) == Review(id, user, "APPROVED", None, "sha1")

production == Some([name |-> "production"])
onPush == Some(Deployment(Some("main"), "production", "push", "sha1"))

TreeContexts ==
    {PolicyContext(env, onPush, <<Commit("sha1", Some(carol), Some(carol), signed)>>, reviews) :
        env \in {None, production},
        reviews \in {<<>>, <<approvedBy(1, alice)>>, <<approvedBy(2, bob)>>,
                     <<approvedBy(1, alice), approvedBy(2, bob)>>}}

----------------------------------------------------------------------------
(* Evaluation of one named rule: the inputs                                *)

MaxCount == 2      \* requires.count
MaxReviews == 2    \* reviews of a context
MaxCommits == 2    \* commits of a context

dave == [id |-> 4, login |-> "dave"]

deployBody == <<"/", "d", "e", "p", "l", "o", "y">>

\* reviews as the API lists them: distinct ids, in the order of submission
AllReviews ==
    << Review(1, alice, "APPROVED", None, "sha1"),
       Review(2, alice, "APPROVED", None, "sha2"),
       Review(3, bob, "commented", Some(deployBody), "sha1"),
       Review(4, bob, "approved", None, "sha1"),
       Review(5, carol, "APPROVED", None, "sha1"),
       Review(6, alice, "CHANGES_REQUESTED", Some(<<"n", "o">>), "sha1") >>

\* commits of a pull request: distinct shas
AllCommits ==
    << Commit("sha1", Some(dave), Some(dave), signed),
       Commit("sha0", Some(alice), Some(dave), signed),
       Commit("sha2", Some(dave), Some(bob), unsigned),
       Commit("sha3", None, None, None) >>

\* the sub-lists of at most n elements of a list, order kept
SubLists(list, n) ==
    UNION {{[i \in 1..k |-> list[f[i]]] :
               f \in {g \in [1..k -> 1..Len(list)] : \A i, j \in 1..k : i < j => g[i] < g[j]}} :
           k \in 0..n}

RequiresChoices ==
    {None} \cup {Some(Requirement(c, <<"alice", "bob">>, <<>>, <<>>)) : c \in 0..MaxCount}

MethodsChoices ==
    {None, Some(Methods(TRUE, None)), Some(Methods(FALSE, Some(<<deployBody>>))),
     Some(Methods(TRUE, Some(<<deployBody>>))),
     Some(Methods(TRUE, Some(<<(<<"/", "[", "/">>), deployBody>>)))}

\* <<rule.if, context.environment, context.deployment>>
SceneChoices ==
    {<<None, production, onPush>>, <<None, production, None>>,
     <<Some(onlyProduction), production, onPush>>, <<Some(onlyProduction), None, onPush>>}

ReqContexts ==
    {PolicyContext(scene[2], scene[3], commits, reviews) :
        scene \in SceneChoices,
        commits \in SubLists(AllCommits, MaxCommits),
        reviews \in SubLists(AllReviews, MaxReviews)}

noMembers == Directory(Answer(FALSE, {}), Answer(FALSE, {}))

InitTree ==
    /\ \/ /\ config \in {PolicyConfig(Some(a), TreeRules) : a \in Approvals}
          /\ input \in TreeContexts
       \/ /\ config \in {PolicyConfig(a, rules) : a \in {None, Some(<<>>)},
                                                  rules \in {<<>>, <<ruleA>>, TreeRules}}
          /\ input \in ReqContexts
    /\ github = noMembers
    /\ context = None
    /\ pc = "call"
    /\ result = "none"
    /\ calls = {}
    /\ evaluations = <<>>
    /\ requests = <<>>
    /\ tasks = <<>>

InitReq ==
    /\ \E scene \in SceneChoices, requires \in RequiresChoices, methods \in MethodsChoices :
          /\ config = PolicyConfig(Some(<<Str("rule")>>),
                                   <<NamedRule("rule", scene[1], requires, methods)>>)
          /\ input \in {PolicyContext(scene[2], scene[3], commits, reviews) :
                           commits \in SubLists(AllCommits, MaxCommits),
                           reviews \in SubLists(AllReviews, MaxReviews)}
    /\ github = noMembers
    /\ context = None
    /\ pc = "call"
    /\ result = "none"
    /\ calls = {}
    /\ evaluations = <<>>
    /\ requests = <<>>
    /\ tasks = <<>>

\* await evaluator.evaluate(input)
Evaluate ==
    /\ pc = "call"
    /\ context' = Some(input)
    /\ result' = evaluate(ThisOf(config, input, github))
    /\ calls' = callsOf(ThisOf(config, input, github))
    /\ pc' = "returned"
    /\ UNCHANGED <<config, github, input, evaluations, requests, tasks>>

NextEvaluate == Evaluate

\* evaluate on rule trees over two fixed named rules
SpecTree == InitTree /\ [][NextEvaluate]_vars

\* evaluate on one named rule, its requirements and the reviews and commits
SpecReq == InitReq /\ [][NextEvaluate]_vars

----------------------------------------------------------------------------
(* What the GitHub API and the webhook payloads hold                       *)

\* an account as the API returns it
apiUser(u) == [id |-> u.id, login |-> u.login, type |-> "User"]

\* a commit as repos.getCommit / pulls.listCommits return it
GitCommit(sha, author, committer, verification) ==
    [sha |-> sha, author |-> author, committer |-> committer,
     commit |-> [verification |-> verification]]

\* a review as pulls.listReviews returns it
ApiReview(id, user, state, body, commit_id, submitted_at) ==
    [id |-> id, user |-> user, state |-> state, body |-> body, commit_id |-> commit_id,
     html_url |-> None, submitted_at |-> submitted_at]

\* the timestamp "....-..-..T..:mm:ssZ" of one hour, as its characters "mm:ss"
clock(m1, m2, s1, s2) == <<m1, m2, ":", s1, s2>>

digit(c) ==
    CASE c = "0" -> 0 [] c = "1" -> 1 [] c = "2" -> 2 [] c = "3" -> 3 [] c = "4" -> 4
      [] c = "5" -> 5 [] c = "6" -> 6 [] c = "7" -> 7 [] c = "8" -> 8 [] c = "9" -> 9

\* new Date(timestamp).getTime(), in milliseconds from the start of the hour
getTime(t) ==
    ((digit(t[1]) * 10 + digit(t[2])) * 60 + (digit(t[4]) * 10 + digit(t[5]))) * 1000

\* commit.author ? {id, login} : undefined
accountOf(who) ==
    IF IsSome(who) THEN Some([id |-> who[1].id, login |-> who[1].login]) ELSE None

\* commit.commit.verification ? {verified, reason} : undefined
verificationOf(v) ==
    IF IsSome(v) THEN Some([verified |-> v[1].verified, reason |-> v[1].reason]) ELSE None

\* the pull requests of the repository, their reviews and their commits
AllPullRequests == <<[number |-> 11], [number |-> 12], [number |-> 13], [number |-> 14]>>

PullRequestReviews(number) ==
    CASE number = 11 ->
           <<ApiReview(1, Some(apiUser(dave)), "APPROVED", None, Some("sha1"),
                       Some(clock("1", "0", "0", "0")))>>
      [] number = 12 ->
           <<ApiReview(2, None, "APPROVED", None, Some("sha1"), Some(clock("0", "9", "0", "0"))),
             ApiReview(3, Some(apiUser(alice)), "APPROVED", None, Some("sha1"), None)>>
      [] number = 13 ->
           <<ApiReview(4, Some(apiUser(alice)), "APPROVED", Some(<<"o", "k">>), Some("sha0"),
                       Some(clock("1", "0", "0", "0")))>>
      [] number = 14 ->
           <<ApiReview(5, Some(apiUser(alice)), "APPROVED", None, Some("sha1"),
                       Some(clock("1", "0", "0", "0")))>>

PullRequestCommits(number) ==
    CASE number = 11 ->
           <<GitCommit("sha1", Some(apiUser(dave)), Some(apiUser(dave)), signed)>>
      [] number = 12 ->
           <<GitCommit("sha0", Some(apiUser(bob)), Some(apiUser(bob)), signed),
             GitCommit("sha1", Some(apiUser(dave)), Some(apiUser(dave)), signed)>>
      [] number = 13 ->
           <<GitCommit("sha1", None, None, None)>>
      [] number = 14 ->
           <<GitCommit("sha0", Some(apiUser(bob)), Some(apiUser(alice)), signed),
             GitCommit("sha1", Some(apiUser(dave)), Some(apiUser(dave)), unsigned)>>

\* a rule that asks for no review when dave wrote every commit
trusted ==
    NamedRule("trusted",
              Some([NoCondition EXCEPT !.only_has_authors_in =
                       Some([users |-> <<"dave">>, organizations |-> <<>>, teams |-> <<>>])]),
              None, None)

\* a rule that asks for alice's review when every commit is signed
signedRule ==
    NamedRule("signed", Some([NoCondition EXCEPT !.has_valid_signatures = TRUE]),
              Some(Requirement(1, <<"alice">>, <<>>, <<>>)), Some(Methods(TRUE, None)))

\* the evaluator whose continuation after an await reads the context `now`
ThisAt(cfg, own, now, gh) == [config |-> cfg, context |-> own, resumed |-> now, githubContext |-> gh]

----------------------------------------------------------------------------
(* deployment_protection_rule.requested                                    *)
(* (handleDeploymentProtectionRuleRequested)                               *)

MaxPullRequests == 2    \* pull requests of a payload

Payload(environment, deployment, event, pull_requests) ==
    [environment |-> environment, deployment |-> deployment, event |-> event,
     pull_requests |-> pull_requests, deployment_callback_url |-> "callback"]

theDeployment == [id |-> 1, sha |-> "sha1", ref |-> Some("main")]

SupportedEvents == {"pull_request", "pull_request_target", "push", "workflow_dispatch"}

DPRPayloads ==
    {Payload(Some("production"), Some(theDeployment), Some(event), prs) :
        event \in SupportedEvents \cup {"schedule"},
        prs \in {None} \cup {Some(l) : l \in SubLists(AllPullRequests, MaxPullRequests)}}
    \cup {Payload(None, Some(theDeployment), Some("push"), None),
          Payload(Some(""), Some(theDeployment), Some("push"), None),
          Payload(Some("production"), None, Some("push"), None),
          Payload(Some("production"), Some(theDeployment), None, None)}

DPRConfigs ==
    {PolicyConfig(None, <<>>),
     PolicyConfig(Some(<<Str("ruleA")>>), <<ruleA>>),
     PolicyConfig(Some(<<Str("trusted")>>), <<trusted>>),
     PolicyConfig(Some(<<Str("trusted"), Str("ruleA")>>), <<trusted, ruleA>>),
     PolicyConfig(Some(<<Str("missing")>>), <<ruleA>>)}

\* what getCommit answers for deployment.sha; None when the request fails
DPRCommits ==
    {None,
     Some(GitCommit("sha1", Some(apiUser(dave)), Some(apiUser(dave)), signed)),
     Some(GitCommit("sha1", Some(apiUser(alice)), Some(apiUser(alice)), unsigned)),
     Some(GitCommit("sha1", None, None, None))}

\* the status the approval request is answered with
ResponseStatuses == {204, 422, 500}

\* mutant: only an absent field is missing, an empty string is accepted
missing_onlyUndefined(field) == IsNone(field)

\* !environment, !event
missing(field) == IsNone(field) \/ ~Truthy(field[1])

initialContext(payload, commit) ==
    PolicyContext(
        Some([name |-> payload.environment[1]]),
        Some(Deployment(payload.deployment[1].ref, payload.environment[1],
                        payload.event[1], payload.deployment[1].sha)),
        <<Commit(payload.deployment[1].sha, accountOf(commit.author),
                 accountOf(commit.committer), verificationOf(commit.commit.verification))>>,
        <<>>)

\* reviews.filter((review) => review.user !== null).map(...)
reviewsOfPullRequest(reviews) ==
    LET kept == SelectSeq(reviews, LAMBDA review : IsSome(review.user))
    IN  [i \in 1..Len(kept) |->
            [id |-> kept[i].id,
             user |-> [id |-> kept[i].user[1].id, login |-> kept[i].user[1].login],
             state |-> kept[i].state,
             body |-> kept[i].body,
             commit_id |-> IF IsSome(kept[i].commit_id) THEN kept[i].commit_id[1] ELSE "",
             html_url |-> kept[i].html_url,
             submitted_at |-> IF IsSome(kept[i].submitted_at) THEN kept[i].submitted_at[1]
                              ELSE <<>>]]

\* commits.map((prCommit) => ({sha, author})): neither committer nor verification
commitsOfPullRequest(commits) ==
    [i \in 1..Len(commits) |-> Commit(commits[i].sha, accountOf(commits[i].author), None, None)]

prContext(initial, reviews, commits) ==
    [initial EXCEPT !.reviews = reviewsOfPullRequest(reviews),
                    !.commits = commitsOfPullRequest(commits)]

\* mutant: the test of isApproved is inverted
isApproved_inverted(r) == r = "false"

\* if (isApproved)
isApproved(r) == r = "true"

\* the pull request the loop is at: one evaluation on the initial context and
\* one per pull request before it have returned
currentPullRequest == input.payload.pull_requests[1][Len(evaluations)]

\* mutant: the pull requests are looked at before the approval is sent
afterEvaluate_pullRequestsFirst(r, n) ==
    IF r = "throws" THEN "failed"
    ELSE IF IsSome(input.payload.pull_requests) /\ n <= Len(input.payload.pull_requests[1])
    THEN "dpr.listReviews"
    ELSE IF isApproved(r) THEN "dpr.approve"
    ELSE "done"

\* where the handler goes when its n-th evaluation has returned r
afterEvaluate(r, n) ==
    IF r = "throws" THEN "failed"
    ELSE IF isApproved(r) THEN "dpr.approve"
    ELSE IF IsSome(input.payload.pull_requests) /\ n <= Len(input.payload.pull_requests[1])
    THEN "dpr.listReviews"
    ELSE "done"

InitDPR ==
    /\ config \in DPRConfigs
    /\ input \in {[payload |-> p, api |-> [commit |-> c, status |-> s]] :
                     p \in DPRPayloads, c \in DPRCommits, s \in ResponseStatuses}
    /\ github = noMembers
    /\ context = None
    /\ pc = "dpr.requested"
    /\ result = "none"
    /\ calls = {}
    /\ evaluations = <<>>
    /\ requests = <<>>
    /\ tasks = <<>>

DPR_Validate ==
    /\ pc = "dpr.requested"
    /\ pc' = IF \/ missing(input.payload.environment)
                \/ IsNone(input.payload.deployment)
                \/ missing(input.payload.event)
             THEN "done"
             ELSE IF input.payload.event[1] \notin SupportedEvents THEN "done"
             ELSE "dpr.getCommit"
    /\ UNCHANGED <<config, context, github, input, result, calls, evaluations, requests, tasks>>

DPR_GetCommit ==
    /\ pc = "dpr.getCommit"
    /\ requests' = Append(requests, [api |-> "getCommit", ref |-> input.payload.deployment[1].sha])
    /\ pc' = IF IsNone(input.api.commit) THEN "failed" ELSE "dpr.evaluate"
    /\ UNCHANGED <<config, context, github, input, result, calls, evaluations, tasks>>

DPR_EvaluateInitial ==
    /\ pc = "dpr.evaluate"
    /\ LET ctx == initialContext(input.payload, input.api.commit[1])
           this == ThisOf(config, ctx, github)
       IN  /\ context' = Some(ctx)
           /\ result' = evaluate(this)
           /\ calls' = callsOf(this)
           /\ evaluations' = Append(evaluations, evaluate(this))
           /\ pc' = afterEvaluate(evaluate(this), 1)
    /\ UNCHANGED <<config, github, input, requests, tasks>>

DPR_ListPullRequestReviews ==
    /\ pc = "dpr.listReviews"
    /\ requests' = Append(requests, [api |-> "listPullRequestReviews",
                                     number |-> currentPullRequest.number])
    /\ pc' = "dpr.listCommits"
    /\ UNCHANGED <<config, context, github, input, result, calls, evaluations, tasks>>

DPR_ListPullRequestCommits ==
    /\ pc = "dpr.listCommits"
    /\ requests' = Append(requests, [api |-> "listPullRequestCommits",
                                     number |-> currentPullRequest.number])
    /\ pc' = "dpr.evaluatePullRequest"
    /\ UNCHANGED <<config, context, github, input, result, calls, evaluations, tasks>>

DPR_EvaluatePullRequest ==
    /\ pc = "dpr.evaluatePullRequest"
    /\ LET ctx == prContext(initialContext(input.payload, input.api.commit[1]),
                            PullRequestReviews(currentPullRequest.number),
                            PullRequestCommits(currentPullRequest.number))
           this == ThisOf(config, ctx, github)
       IN  /\ context' = Some(ctx)
           /\ result' = evaluate(this)
           /\ calls' = callsOf(this)
           /\ evaluations' = Append(evaluations, evaluate(this))
           /\ pc' = afterEvaluate(evaluate(this), Len(evaluations) + 1)
    /\ UNCHANGED <<config, github, input, requests, tasks>>

\* mutant: the catch around the POST is missing
DPR_Approve_noCatch ==
    /\ pc = "dpr.approve"
    /\ requests' = Append(requests, [api |-> "POST",
                                     url |-> input.payload.deployment_callback_url,
                                     environment_name |-> input.payload.environment[1],
                                     state |-> "approved",
                                     comment |-> "Approved by policy"])
    /\ pc' = IF input.api.status >= 400 THEN "failed" ELSE "done"
    /\ UNCHANGED <<config, context, github, input, result, calls, evaluations, tasks>>

\* mutant: no return after the approval, the loop over pull requests goes on
DPR_Approve_noReturn ==
    /\ pc = "dpr.approve"
    /\ requests' = Append(requests, [api |-> "POST",
                                     url |-> input.payload.deployment_callback_url,
                                     environment_name |-> input.payload.environment[1],
                                     state |-> "approved",
                                     comment |-> "Approved by policy"])
    /\ pc' = IF input.api.status = 422 THEN "done"
             ELSE IF input.api.status >= 400 THEN "failed"
             ELSE IF /\ IsSome(input.payload.pull_requests)
                     /\ Len(evaluations) <= Len(input.payload.pull_requests[1])
             THEN "dpr.listReviews"
             ELSE "done"
    /\ UNCHANGED <<config, context, github, input, result, calls, evaluations, tasks>>

\* POST deployment_callback_url; a 422 answer is swallowed, another error is thrown
DPR_Approve ==
    /\ pc = "dpr.approve"
    /\ requests' = Append(requests, [api |-> "POST",
                                     url |-> input.payload.deployment_callback_url,
                                     environment_name |-> input.payload.environment[1],
                                     state |-> "approved",
                                     comment |-> "Approved by policy"])
    /\ pc' = IF input.api.status = 422 THEN "done"
             ELSE IF input.api.status >= 400 THEN "failed"
             ELSE "done"
    /\ UNCHANGED <<config, context, github, input, result, calls, evaluations, tasks>>

NextDPR ==
    \/ DPR_Validate
    \/ DPR_GetCommit
    \/ DPR_EvaluateInitial
    \/ DPR_ListPullRequestReviews
    \/ DPR_ListPullRequestCommits
    \/ DPR_EvaluatePullRequest
    \/ DPR_Approve

\* one delivery of deployment_protection_rule.requested
SpecDPR == InitDPR /\ [][NextDPR]_vars

----------------------------------------------------------------------------
(* pull_request_review.submitted (handlePullRequestReviewSubmitted)        *)

MaxRuns == 2    \* workflow runs listWorkflowRuns returns

WorkflowRun(id, head_sha, event, created_at) ==
    [id |-> id, head_sha |-> head_sha, head_branch |-> Some("feature"), event |-> event,
     created_at |-> created_at]

\* the review is submitted at 10:00; the runs of the branch, oldest id first
submittedAt == clock("1", "0", "0", "0")

AllRuns ==
    << WorkflowRun(21, "sha1", "pull_request", clock("0", "9", "3", "0")),
       WorkflowRun(22, "sha1", "pull_request", clock("0", "9", "0", "0")),
       WorkflowRun(23, "sha1", "pull_request", clock("0", "8", "5", "9")),
       WorkflowRun(24, "sha9", "pull_request", clock("0", "5", "0", "0")),
       WorkflowRun(25, "sha9", "pull_request_target", clock("0", "5", "0", "0")),
       WorkflowRun(26, "sha1", "push", clock("1", "0", "3", "0")) >>

PendingDeployment(name, current_user_can_approve) ==
    [environment |-> [name |-> name], current_user_can_approve |-> current_user_can_approve]

\* what getPendingDeploymentsForRun answers for a run
PendingDeployments(run_id) ==
    CASE run_id = 23 ->
           <<PendingDeployment(Some("production"), TRUE), PendingDeployment(Some("qa"), FALSE),
             PendingDeployment(Some("staging"), TRUE)>>
      [] run_id = 25 ->
           <<PendingDeployment(Some("qa"), FALSE), PendingDeployment(None, TRUE),
             PendingDeployment(Some("production"), TRUE)>>
      [] OTHER -> <<PendingDeployment(Some("production"), TRUE)>>

\* what getCommit answers for the head of a run
CommitAt(sha) == GitCommit(sha, Some(apiUser(dave)), Some(apiUser(dave)), signed)

\* the review of the payload
SubmittedReview(id, user, state, submitted_at) ==
    [id |-> id, user |-> apiUser(user), state |-> state, body |-> None,
     submitted_at |-> submitted_at, commit_id |-> "sha1"]

PRRPayloads ==
    {[review |-> SubmittedReview(7, user, "approved", at),
      pull_request |-> [number |-> 12, head |-> [ref |-> "feature", sha |-> "sha1"]]] :
        user \in {alice, dave}, at \in {None, Some(submittedAt)}}

PRRConfigs ==
    {PolicyConfig(None, <<>>),
     PolicyConfig(Some(<<Str("ruleA")>>), <<ruleA>>),
     PolicyConfig(Some(<<Str("signed")>>), <<signedRule>>),
     PolicyConfig(Some(<<Str("missing")>>), <<ruleA>>)}

approvalContext(payload, commits) ==
    PolicyContext(
        None, None,
        [i \in 1..Len(commits) |->
            Commit(commits[i].sha, accountOf(commits[i].author), accountOf(commits[i].committer),
                   verificationOf(commits[i].commit.verification))],
        <<[id |-> payload.review.id,
           user |-> [id |-> payload.review.user.id, login |-> payload.review.user.login],
           state |-> payload.review.state,
           body |-> payload.review.body,
           submitted_at |-> payload.review.submitted_at,
           commit_id |-> payload.review.commit_id]>>)

\* mutant: a run created exactly one minute before the review is taken
isWithinTimeWindow_inclusive(workflowRun, review) ==
    IF IsSome(review.submitted_at) /\ Len(review.submitted_at[1]) > 0
    THEN getTime(workflowRun.created_at) + 60 * 1000 <= getTime(review.submitted_at[1])
    ELSE getTime(workflowRun.created_at) + 60 * 1000 <= 0

\* new Date(createdAt.getTime() + 60 * 1000) < submittedAt, where submittedAt
\* is 0 when review.submitted_at is not provided
isWithinTimeWindow(workflowRun, review) ==
    IF IsSome(review.submitted_at) /\ Len(review.submitted_at[1]) > 0
    THEN getTime(workflowRun.created_at) + 60 * 1000 < getTime(review.submitted_at[1])
    ELSE getTime(workflowRun.created_at) + 60 * 1000 < 0

isValidSha(workflowRun, review) ==
    \/ workflowRun.head_sha = review.commit_id
    \/ workflowRun.event = "pull_request_target"

\* mutant: the deployments the app cannot approve are kept
environmentNames_all(pendingDeployments) ==
    LET kept == SelectSeq(pendingDeployments,
                          LAMBDA deployment : IsSome(deployment.environment.name))
    IN  [i \in 1..Len(kept) |-> kept[i].environment.name[1]]

filteredWorkflowRuns(workflowRuns, review) ==
    SelectSeq(workflowRuns,
              LAMBDA workflowRun :
                  isValidSha(workflowRun, review) /\ isWithinTimeWindow(workflowRun, review))

environmentNames(pendingDeployments) ==
    LET kept == SelectSeq(pendingDeployments,
                          LAMBDA deployment :
                              /\ deployment.current_user_can_approve
                              /\ IsSome(deployment.environment.name))
    IN  [i \in 1..Len(kept) |-> kept[i].environment.name[1]]

\* {...approvalContext, deployment: {ref, environment, event, commit: {sha}}}
environmentContext(approval, workflowRun, environmentName, commit) ==
    [approval EXCEPT !.deployment =
        Some(Deployment(workflowRun.head_branch, environmentName, workflowRun.event, commit.sha))]

InitPRR ==
    /\ config \in PRRConfigs
    /\ input \in {[payload |-> p, api |-> [runs |-> runs, status |-> s]] :
                     p \in PRRPayloads, runs \in SubLists(AllRuns, MaxRuns),
                     s \in ResponseStatuses}
    /\ github = noMembers
    /\ context = None
    /\ pc = "prr.listCommits"
    /\ result = "none"
    /\ calls = {}
    /\ evaluations = <<>>
    /\ requests = <<>>
    /\ tasks = <<>>

theApprovalContext ==
    approvalContext(input.payload, PullRequestCommits(input.payload.pull_request.number))

PRR_ListPullRequestCommits ==
    /\ pc = "prr.listCommits"
    /\ requests' = Append(requests, [api |-> "listPullRequestCommits",
                                     number |-> input.payload.pull_request.number])
    /\ pc' = "prr.evaluate"
    /\ UNCHANGED <<config, context, github, input, result, calls, evaluations, tasks>>

\* mutant: the result of the first evaluation is not looked at
PRR_EvaluateReview_noGate ==
    /\ pc = "prr.evaluate"
    /\ LET this == ThisOf(config, theApprovalContext, github)
       IN  /\ context' = Some(theApprovalContext)
           /\ result' = evaluate(this)
           /\ calls' = callsOf(this)
           /\ evaluations' = Append(evaluations, evaluate(this))
           /\ pc' = IF evaluate(this) = "throws" THEN "failed" ELSE "prr.listWorkflowRuns"
    /\ UNCHANGED <<config, github, input, requests, tasks>>

\* if (!(await evaluator.evaluate(approvalContext))) return
PRR_EvaluateReview ==
    /\ pc = "prr.evaluate"
    /\ LET this == ThisOf(config, theApprovalContext, github)
       IN  /\ context' = Some(theApprovalContext)
           /\ result' = evaluate(this)
           /\ calls' = callsOf(this)
           /\ evaluations' = Append(evaluations, evaluate(this))
           /\ pc' = IF evaluate(this) = "throws" THEN "failed"
                    ELSE IF evaluate(this) = "true" THEN "prr.listWorkflowRuns"
                    ELSE "done"
    /\ UNCHANGED <<config, github, input, requests, tasks>>

\* listWorkflowRuns, the filter, and the start of one task per run kept
PRR_ListWorkflowRuns ==
    /\ pc = "prr.listWorkflowRuns"
    /\ requests' = Append(requests, [api |-> "listWorkflowRuns",
                                     branch |-> input.payload.pull_request.head.ref])
    /\ LET kept == filteredWorkflowRuns(input.api.runs, input.payload.review)
       IN  tasks' = [i \in 1..Len(kept) |->
                        [run |-> kept[i], at |-> "listPendingDeployments", envs |-> <<>>]]
    /\ pc' = "prr.awaitAll"
    /\ UNCHANGED <<config, context, github, input, result, calls, evaluations>>

PRR_ListPendingDeployments ==
    \E i \in 1..Len(tasks) :
        /\ tasks[i].at = "listPendingDeployments"
        /\ requests' = Append(requests, [api |-> "listPendingDeployments",
                                         run_id |-> tasks[i].run.id])
        /\ LET names == environmentNames(PendingDeployments(tasks[i].run.id))
           IN  tasks' = [tasks EXCEPT
                   ![i].at = "environments",
                   ![i].envs = [j \in 1..Len(names) |->
                                   [name |-> names[j], at |-> "getCommit", sha |-> "",
                                    isApproved |-> "none"]]]
        /\ UNCHANGED <<config, context, github, input, pc, result, calls, evaluations>>

PRR_GetCommit ==
    \E i \in 1..Len(tasks) : \E j \in 1..Len(tasks[i].envs) :
        /\ tasks[i].envs[j].at = "getCommit"
        /\ requests' = Append(requests, [api |-> "getCommit", ref |-> tasks[i].run.head_sha])
        /\ tasks' = [tasks EXCEPT ![i].envs[j].at = "evaluate",
                                  ![i].envs[j].sha = CommitAt(tasks[i].run.head_sha).sha]
        /\ UNCHANGED <<config, context, github, input, pc, result, calls, evaluations>>

contextOfTask(i, j) ==
    environmentContext(theApprovalContext, tasks[i].run, tasks[i].envs[j].name,
                       [sha |-> tasks[i].envs[j].sha])

\* evaluator.evaluate(...) up to its first await: this.context = context
PRR_EvaluateStart ==
    \E i \in 1..Len(tasks) : \E j \in 1..Len(tasks[i].envs) :
        /\ tasks[i].envs[j].at = "evaluate"
        /\ context' = Some(contextOfTask(i, j))
        /\ tasks' = [tasks EXCEPT ![i].envs[j].at = "resume"]
        /\ UNCHANGED <<config, github, input, pc, result, calls, evaluations, requests>>

\* the rest of the evaluation, on the evaluator every task shares
PRR_EvaluateResume ==
    \E i \in 1..Len(tasks) : \E j \in 1..Len(tasks[i].envs) :
        /\ tasks[i].envs[j].at = "resume"
        /\ LET this == ThisAt(config, contextOfTask(i, j), context[1], github)
           IN  /\ result' = evaluate(this)
               /\ calls' = callsOf(this)
               /\ evaluations' = Append(evaluations, evaluate(this))
               /\ tasks' = [tasks EXCEPT ![i].envs[j].isApproved = evaluate(this),
                                         ![i].envs[j].at =
                               IF evaluate(this) = "throws" THEN "failed"
                               ELSE IF evaluate(this) = "true" THEN "review"
                               ELSE "done"]
        /\ UNCHANGED <<config, context, github, input, pc, requests>>

\* mutant: the catch swallows every error
PRR_ReviewWorkflowRun_swallowsAll ==
    \E i \in 1..Len(tasks) : \E j \in 1..Len(tasks[i].envs) :
        /\ tasks[i].envs[j].at = "review"
        /\ requests' = Append(requests, [api |-> "reviewWorkflowRun",
                                         run_id |-> tasks[i].run.id,
                                         environment |-> tasks[i].envs[j].name,
                                         state |-> "approved",
                                         comment |-> "Approved by policy"])
        /\ tasks' = [tasks EXCEPT ![i].envs[j].at = "done"]
        /\ UNCHANGED <<config, context, github, input, pc, result, calls, evaluations>>

\* reviewWorkflowRun(..., 'approved', ...); a 422 answer is swallowed
PRR_ReviewWorkflowRun ==
    \E i \in 1..Len(tasks) : \E j \in 1..Len(tasks[i].envs) :
        /\ tasks[i].envs[j].at = "review"
        /\ requests' = Append(requests, [api |-> "reviewWorkflowRun",
                                         run_id |-> tasks[i].run.id,
                                         environment |-> tasks[i].envs[j].name,
                                         state |-> "approved",
                                         comment |-> "Approved by policy"])
        /\ tasks' = [tasks EXCEPT ![i].envs[j].at =
                        IF input.api.status = 422 THEN "done"
                        ELSE IF input.api.status >= 400 THEN "failed"
                        ELSE "done"]
        /\ UNCHANGED <<config, context, github, input, pc, result, calls, evaluations>>

\* Promise.all resolves when every task has
PRR_Resolve ==
    /\ pc = "prr.awaitAll"
    /\ \A i \in 1..Len(tasks) :
          /\ tasks[i].at = "environments"
          /\ \A j \in 1..Len(tasks[i].envs) : tasks[i].envs[j].at = "done"
    /\ pc' = "done"
    /\ UNCHANGED <<config, context, github, input, result, calls, evaluations, requests, tasks>>

\* Promise.all rejects with the first task that does; the others go on
PRR_Reject ==
    /\ pc = "prr.awaitAll"
    /\ \E i \in 1..Len(tasks) : \E j \in 1..Len(tasks[i].envs) : tasks[i].envs[j].at = "failed"
    /\ pc' = "failed"
    /\ UNCHANGED <<config, context, github, input, result, calls, evaluations, requests, tasks>>

NextPRR ==
    \/ PRR_ListPullRequestCommits
    \/ PRR_EvaluateReview
    \/ PRR_ListWorkflowRuns
    \/ PRR_ListPendingDeployments
    \/ PRR_GetCommit
    \/ PRR_EvaluateStart
    \/ PRR_EvaluateResume
    \/ PRR_ReviewWorkflowRun
    \/ PRR_Resolve
    \/ PRR_Reject

\* one delivery of pull_request_review.submitted
SpecPRR == InitPRR /\ [][NextPRR]_vars

----------------------------------------------------------------------------
(* Reading the log of an evaluation                                        *)

returned == pc = "returned"

approvalOf(cfg) == IF IsSome(cfg.policy.approval) THEN cfg.policy.approval[1] ELSE <<>>

ruleEntries == {c \in calls : "rule" \in DOMAIN c}
namedEntries == {c \in calls : "named" \in DOMAIN c}
requiresEntries == {c \in calls : "requires" \in DOMAIN c}

wasCalled(rule) == \E c \in ruleEntries : c.rule = rule
resultOf(rule) == (CHOOSE c \in ruleEntries : c.rule = rule).result

isAndGroup(rule) == rule.t = "object" /\ IsSome(rule.and)
isOrGroup(rule) == rule.t = "array" \/ (rule.t = "object" /\ IsNone(rule.and) /\ IsSome(rule.or))
membersOf(rule) ==
    IF isAndGroup(rule) THEN rule.and[1]
    ELSE IF rule.t = "array" THEN rule.items
    ELSE IF isOrGroup(rule) THEN rule.or[1]
    ELSE <<>>

allCalled(list) == \A i \in 1..Len(list) : wasCalled(list[i])
noneThrows(list) == \A i \in 1..Len(list) : resultOf(list[i]) # "throws"
everySkipped(list) == \A i \in 1..Len(list) : resultOf(list[i]) = "skipped"
somePasses(list) == \E i \in 1..Len(list) : resultOf(list[i]) = "true"
someFails(list) == \E i \in 1..Len(list) : resultOf(list[i]) = "false"

----------------------------------------------------------------------------
(* Claims about the evaluation of rule trees (SpecTree)                    *)

\* C5: evaluate returns false when policy.approval is empty or absent,
\* whatever approval_rules, commits and reviews hold, and evaluates no rule.
C5_EmptyPolicyIsFalse ==
    (returned /\ Len(approvalOf(config)) = 0) => (result = "false" /\ calls = {})

C5_Witness ==
    /\ returned
    /\ config.policy.approval = Some(<<>>)
    /\ Len(config.approval_rules) > 0
    /\ Len(input.reviews) > 0
    /\ Len(input.commits) > 0
    /\ result = "false"

\* C6: an OR over a rule list (policy.approval, an {or: [...]} group, a bare
\* list) evaluates every member; when no member throws it is skipped iff every
\* member is skipped (the empty list included) and otherwise passes iff some
\* member passes, whatever the failing members.
orOutcome(list, outcome) ==
    /\ allCalled(list)
    /\ noneThrows(list) =>
          /\ outcome \in {"true", "false", "skipped"}
          /\ outcome = "skipped" <=> everySkipped(list)
          /\ outcome = "true" <=> somePasses(list)

C6_OrOverRuleList ==
    returned =>
        /\ \A c \in ruleEntries : isOrGroup(c.rule) => orOutcome(membersOf(c.rule), c.result)
        /\ Len(approvalOf(config)) > 0 =>
              /\ allCalled(approvalOf(config))
              /\ noneThrows(approvalOf(config)) =>
                    (result = "true" <=> somePasses(approvalOf(config)))

\* policy.approval passes although one member fails and another is skipped
C6_Witness ==
    /\ returned
    /\ result = "true"
    /\ someFails(approvalOf(config))
    /\ \E i \in 1..Len(approvalOf(config)) : resultOf(approvalOf(config)[i]) = "skipped"

\* C7: an {and: [...]} group, when no member throws, is skipped iff every
\* member is skipped and otherwise passes iff every member that is not skipped
\* passes; {and: [ruleA, ruleB]} with one review that satisfies ruleA only is
\* false, with one review for each rule it is true.
andOutcome(list, outcome) ==
    /\ allCalled(list)
    /\ noneThrows(list) =>
          /\ outcome \in {"true", "false", "skipped"}
          /\ outcome = "skipped" <=> everySkipped(list)
          /\ outcome = "true" <=> (~everySkipped(list) /\ ~someFails(list))

bothRules == <<Obj(Some(<<Str("ruleA"), Str("ruleB")>>), None)>>

C7_AndGroup ==
    returned =>
        /\ \A c \in ruleEntries : isAndGroup(c.rule) => andOutcome(membersOf(c.rule), c.result)
        /\ (/\ config = PolicyConfig(Some(bothRules), TreeRules)
            /\ input.environment = production) =>
              /\ input.reviews = <<approvedBy(1, alice)>> => result = "false"
              /\ input.reviews = <<approvedBy(1, alice), approvedBy(2, bob)>> => result = "true"

C7_Witness ==
    /\ returned
    /\ config = PolicyConfig(Some(bothRules), TreeRules)
    /\ input.environment = production
    /\ input.reviews = <<approvedBy(1, alice)>>
    /\ resultOf(Str("ruleA")) = "true"
    /\ resultOf(Str("ruleB")) = "false"
    /\ result = "false"

\* C8: skip is left out of the enclosing combinator at every depth: a group
\* whose members are all skipped is itself skipped; a skipped member does not
\* make an AND fail nor an OR pass; only evaluate turns skipped into false.
isGroup(rule) == isAndGroup(rule) \/ isOrGroup(rule)
hasSkipped(list) == \E i \in 1..Len(list) : resultOf(list[i]) = "skipped"

C8_SkipIsExcluded ==
    returned =>
        /\ \A c \in ruleEntries :
              (isGroup(c.rule) /\ allCalled(membersOf(c.rule)) /\ everySkipped(membersOf(c.rule)))
                  => c.result = "skipped"
        /\ \A c \in ruleEntries :
              (isGroup(c.rule) /\ hasSkipped(membersOf(c.rule)) /\ noneThrows(membersOf(c.rule))) =>
                  /\ (isAndGroup(c.rule) /\ c.result = "false") => someFails(membersOf(c.rule))
                  /\ (isAndGroup(c.rule) /\ ~someFails(membersOf(c.rule))
                        /\ ~everySkipped(membersOf(c.rule))) => c.result = "true"
                  /\ (isOrGroup(c.rule) /\ c.result = "true") => somePasses(membersOf(c.rule))
        /\ (Len(approvalOf(config)) > 0 /\ everySkipped(approvalOf(config))) => result = "false"

\* an AND group that holds one list, whose only member is skipped: the list
\* and the AND are both skipped, and evaluate is false
C8_Witness ==
    /\ returned
    /\ \E c \in ruleEntries :
          /\ isAndGroup(c.rule)
          /\ c.result = "skipped"
          /\ \E i \in 1..Len(membersOf(c.rule)) :
                /\ isGroup(membersOf(c.rule)[i])
                /\ Len(membersOf(membersOf(c.rule)[i])) > 0
                /\ resultOf(membersOf(c.rule)[i]) = "skipped"
    /\ result = "false"

\* C10: when a reference that the evaluation reaches names no rule of
\* approval_rules, evaluate throws, also when a sibling of the same OR passes.
isUnknown(rule) ==
    /\ rule.t = "string"
    /\ \A i \in 1..Len(config.approval_rules) : config.approval_rules[i].name # rule.name

C10_UnknownRuleThrows ==
    (returned /\ \E c \in ruleEntries : isUnknown(c.rule)) => result = "throws"

C10_Witness ==
    /\ returned
    /\ result = "throws"
    /\ \E i, j \in 1..Len(approvalOf(config)) :
          /\ isUnknown(approvalOf(config)[i])
          /\ resultOf(approvalOf(config)[j]) = "true"

----------------------------------------------------------------------------
(* Claims about the requirements of a named rule (SpecReq)                 *)

\* the reviewer's id is the author's or the committer's id of a commit of the list
byAuthorOrCommitter(review, commits) ==
    \E i \in 1..Len(commits) :
        \/ Some(review.user.id) = [k \in 1..Len(commits[i].author) |-> commits[i].author[k].id]
        \/ Some(review.user.id) = [k \in 1..Len(commits[i].committer) |-> commits[i].committer[k].id]

\* C2: a review whose user.id is the author.id or the committer.id of any
\* commit of context.commits, the reviewed commit or another, is never among
\* the reviews counted toward requires.count.
C2_SelfApprovalNeverCounts ==
    returned =>
        \A c \in requiresEntries :
            /\ \A k \in 1..Len(c.eligible) : ~byAuthorOrCommitter(c.eligible[k], input.commits)
            /\ (\A k \in 1..Len(input.reviews) : byAuthorOrCommitter(input.reviews[k], input.commits))
                  => c.result \in {"false", "throws"}

\* alice approves sha1, the deployed commit, written by dave; she is the
\* author of sha0, another commit of the context: her review is not counted
C2_Witness ==
    /\ returned
    /\ input.commits = <<AllCommits[1], AllCommits[2]>>
    /\ input.reviews = <<AllReviews[1]>>
    /\ input.deployment = onPush
    /\ \E c \in requiresEntries : c.eligible = <<>> /\ c.result = "false"
    /\ config.approval_rules[1].methods = Some(Methods(TRUE, None))
    /\ config.approval_rules[1].requires = Some(Requirement(1, <<"alice", "bob">>, <<>>, <<>>))
    /\ result = "false"

\* C3: when context.deployment.commit.sha is present, a review whose commit_id
\* differs from it is never among the reviews counted toward requires.count.
C3_OtherCommitNeverCounts ==
    returned =>
        \A c \in requiresEntries :
            (IsSome(input.deployment) /\ input.deployment[1].commit.sha # "") =>
                /\ \A k \in 1..Len(c.eligible) :
                      c.eligible[k].commit_id = input.deployment[1].commit.sha
                /\ (\A k \in 1..Len(input.reviews) :
                        input.reviews[k].commit_id # input.deployment[1].commit.sha)
                      => c.result \in {"false", "throws"}

\* alice, authorized and no contributor, approves sha2 while sha1 is deployed
C3_Witness ==
    /\ returned
    /\ input.commits = <<AllCommits[1]>>
    /\ input.reviews = <<AllReviews[2]>>
    /\ input.deployment = onPush
    /\ \E c \in requiresEntries : c.eligible = <<>> /\ c.result = "false"
    /\ config.approval_rules[1].methods = Some(Methods(TRUE, None))
    /\ config.approval_rules[1].requires = Some(Requirement(1, <<"alice", "bob">>, <<>>, <<>>))
    /\ result = "false"

\* C9: a named rule is skipped iff it has an `if` whose conditions do not all
\* hold; otherwise it passes, without evaluating requirements, when `requires`
\* is absent or requires.count < 1; otherwise its outcome is the one of
\* evaluateRequirements, never skipped.
C9_NamedRuleOutcome ==
    returned =>
        \A c \in namedEntries :
            LET rule == findNamedRule(ThisOf(config, input, github), c.named)[1]
                unmet == /\ IsSome(rule.if)
                         /\ ~evaluateConditions(ThisOf(config, input, github), rule.if[1])
                free == IsNone(rule.requires) \/ rule.requires[1].count < 1
                evaluated == {e \in requiresEntries : e.requires = c.named}
            IN  /\ c.result = "skipped" <=> unmet
                /\ unmet => evaluated = {}
                /\ (~unmet /\ free) => (c.result = "true" /\ evaluated = {})
                /\ (~unmet /\ ~free) =>
                      /\ c.result \in {"true", "false", "throws"}
                      /\ \E e \in evaluated : e.result = c.result

\* count 0 with a pattern that is no regular expression and a commented
\* review that would reach it: the rule passes, nothing is evaluated
C9_Witness ==
    /\ returned
    /\ \E c \in namedEntries : c.result = "true"
    /\ requiresEntries = {}
    /\ IsSome(config.approval_rules[1].if)
    /\ config.approval_rules[1].requires = Some(Requirement(0, <<"alice", "bob">>, <<>>, <<>>))
    /\ config.approval_rules[1].methods = Some(Methods(TRUE, Some(<<(<<"/", "[", "/">>), deployBody>>)))
    /\ input.reviews = <<AllReviews[3]>>
    /\ result = "true"

----------------------------------------------------------------------------
(* Claims about the handlers (SpecDPR, SpecPRR)                            *)

\* the approval callbacks of this delivery
approvalCallbacks ==
    {k \in 1..Len(requests) : requests[k].api = "POST" /\ requests[k].state = "approved"}

\* C1: in the deployment-protection-requested flow the approval callback is
\* issued only if some evaluate call of the delivery returned true, and only
\* after that call; when every evaluation returned false the handler ends
\* with no approval callback issued.
C1_CallbackOnlyAfterApproval ==
    /\ approvalCallbacks # {} =>
          /\ \E n \in 1..Len(evaluations) : evaluations[n] = "true"
          /\ evaluations[Len(evaluations)] = "true"
    /\ (\A n \in 1..Len(evaluations) : evaluations[n] = "false") => approvalCallbacks = {}
    /\ pc = "dpr.approve" => evaluations[Len(evaluations)] = "true"

\* the initial context and two pull requests were evaluated, none approved,
\* and the handler returned without a callback
C1_Witness ==
    /\ pc = "done"
    /\ evaluations = <<"false", "false", "false">>
    /\ approvalCallbacks = {}
    /\ \E k \in 1..Len(requests) : requests[k].api = "listPullRequestCommits"

\* the reviewWorkflowRun requests of this delivery
runApprovals == {k \in 1..Len(requests) : requests[k].api = "reviewWorkflowRun"}

runOf(id) == CHOOSE run \in Range(input.api.runs) : run.id = id

\* C4: in the review-submitted flow a workflow run is approved only if the
\* review has a submitted_at and run.created_at + 60 s is strictly earlier
\* than it; a run created 30 s or exactly 60 s before is never approved.
C4_OnlyRunsOlderThanAMinute ==
    \A k \in runApprovals :
        /\ IsSome(input.payload.review.submitted_at)
        /\ getTime(runOf(requests[k].run_id).created_at) + 60000
              < getTime(input.payload.review.submitted_at[1])
        /\ requests[k].run_id \notin {21, 22, 26}

\* listWorkflowRuns returned the run created exactly 60 s before the review
\* and the run created 61 s before it: only the latter was approved
C4_Witness ==
    /\ pc = "done"
    /\ input.api.runs = <<AllRuns[2], AllRuns[3]>>
    /\ {requests[k].run_id : k \in runApprovals} = {23}
    /\ getTime(AllRuns[3].created_at) + 61000 = getTime(input.payload.review.submitted_at[1])
    /\ getTime(AllRuns[2].created_at) + 60000 = getTime(input.payload.review.submitted_at[1])

----------------------------------------------------------------------------
(* Evaluation with member lookups: the inputs                              *)

inTeam == [users |-> <<>>, organizations |-> <<>>, teams |-> <<"acme/security">>]
inOrganization == [users |-> <<>>, organizations |-> <<"acme">>, teams |-> <<>>]

\* rules that depend on one source only: the team, the organization, or the
\* list of users
byTeam == NamedRule("byTeam", None,
                    Some(Requirement(1, <<>>, <<>>, <<"acme/security">>)), Some(Methods(TRUE, None)))
byOrganization == NamedRule("byOrganization", None,
                            Some(Requirement(1, <<>>, <<"acme">>, <<>>)), Some(Methods(TRUE, None)))
byUser == NamedRule("byUser", None,
                    Some(Requirement(1, <<"alice">>, <<>>, <<>>)), Some(Methods(TRUE, None)))
signedByTeam ==
    NamedRule("signedByTeam",
              Some([NoCondition EXCEPT !.has_valid_signatures_by = Some(inTeam)]), None, None)
authorsInOrganization ==
    NamedRule("authorsInOrganization",
              Some([NoCondition EXCEPT !.only_has_authors_in = Some(inOrganization)]), None, None)

MemberRules == <<byTeam, byOrganization, byUser, signedByTeam, authorsInOrganization>>

\* policy.approval: one or two of the rules, in any order
MemberApprovals ==
    {<<Str(MemberRules[i].name)>> : i \in 1..Len(MemberRules)}
    \cup {<<Str(MemberRules[i].name), Str(MemberRules[j].name)>> :
             i \in 1..Len(MemberRules), j \in 1..Len(MemberRules)}

\* what a lookup answers: an error, nobody, alice, carol
LookupAnswers ==
    {Answer(TRUE, {}), Answer(FALSE, {}), Answer(FALSE, {"alice"}), Answer(FALSE, {"carol"})}

MemberContexts ==
    {PolicyContext(production, onPush, <<Commit("sha1", Some(who), Some(who), signed)>>, reviews) :
        who \in {carol, dave}, reviews \in {<<>>, <<approvedBy(1, alice)>>}}

InitMembers ==
    /\ config \in {PolicyConfig(Some(a), MemberRules) : a \in MemberApprovals}
    /\ input \in MemberContexts
    /\ github \in {Directory(org, team) : org \in LookupAnswers, team \in LookupAnswers}
    /\ context = None
    /\ pc = "call"
    /\ result = "none"
    /\ calls = {}
    /\ evaluations = <<>>
    /\ requests = <<>>
    /\ tasks = <<>>

\* evaluate on rules that look members up
SpecMembers == InitMembers /\ [][NextEvaluate]_vars

----------------------------------------------------------------------------
(* Claims about member lookups (SpecMembers)                               *)

namedResult(name) == (CHOOSE c \in namedEntries : c.named = name).result
namedCalled(name) == \E c \in namedEntries : c.named = name

\* C11: a team or organization lookup that throws counts as "not a member":
\* evaluate does not raise, a requirement depending only on that lookup is not
\* met and a condition depending only on it does not hold, every rule of
\* policy.approval is still evaluated, and a sibling rule that passes makes
\* evaluate true.
C11_FailedLookupIsNotAMember ==
    returned =>
        /\ result # "throws"
        /\ \A i \in 1..Len(approvalOf(config)) : namedCalled(approvalOf(config)[i].name)
        /\ github.teams["acme/security"].throws =>
              /\ namedCalled("byTeam") => namedResult("byTeam") = "false"
              /\ namedCalled("signedByTeam") => namedResult("signedByTeam") = "skipped"
        /\ github.organizations["acme"].throws =>
              /\ namedCalled("byOrganization") => namedResult("byOrganization") = "false"
              /\ namedCalled("authorsInOrganization") =>
                    namedResult("authorsInOrganization") = "skipped"
        /\ (\E c \in namedEntries : c.result = "true") => result = "true"

\* the team lookup throws, alice approved: the rule on the team fails, the
\* rule on the list of users passes and evaluate is true
C11_Witness ==
    /\ returned
    /\ github.teams["acme/security"].throws
    /\ approvalOf(config) = <<Str("byTeam"), Str("byUser")>>
    /\ namedResult("byTeam") = "false"
    /\ namedResult("byUser") = "true"
    /\ result = "true"

----------------------------------------------------------------------------
(* Claims about the order of the deployment protection handler (SpecDPR)   *)

\* the requests of one kind, in the order they were issued
requestsTo(api) == SelectSeq(requests, LAMBDA r : r.api = api)

\* the pull requests of the payload, none when the payload has no list
pullRequestsOf(payload) ==
    IF IsSome(payload.pull_requests) THEN payload.pull_requests[1] ELSE <<>>

\* C12: pull requests are tried in payload order and the first whose context
\* passes wins: reviews and commits are fetched for a prefix of the payload's
\* list, in its order, every evaluation before the last returned false, at
\* most one approval callback is issued, and once it is issued it is the last
\* request and the last evaluation of the delivery.
C12_FirstPassWins ==
    /\ Cardinality(approvalCallbacks) <= 1
    /\ \A n \in 1..(Len(evaluations) - 1) : evaluations[n] = "false"
    /\ Len(requestsTo("listPullRequestReviews")) <= Len(pullRequestsOf(input.payload))
    /\ \A k \in 1..Len(requestsTo("listPullRequestReviews")) :
          requestsTo("listPullRequestReviews")[k].number = pullRequestsOf(input.payload)[k].number
    /\ \A k \in 1..Len(requestsTo("listPullRequestCommits")) :
          requestsTo("listPullRequestCommits")[k].number = pullRequestsOf(input.payload)[k].number
    /\ approvalCallbacks # {} =>
          /\ approvalCallbacks = {Len(requests)}
          /\ pc \in {"done", "failed"}
          /\ Len(requestsTo("listPullRequestReviews")) = Len(evaluations) - 1
          /\ Len(requestsTo("listPullRequestCommits")) = Len(evaluations) - 1

\* pull requests 12 and 14 would both pass; 12 comes first and is approved,
\* nothing of 14 is fetched
C12_Witness ==
    /\ pc = "done"
    /\ pullRequestsOf(input.payload) = <<AllPullRequests[2], AllPullRequests[4]>>
    /\ evaluations = <<"false", "true">>
    /\ Cardinality(approvalCallbacks) = 1
    /\ input.api.status = 204
    /\ ~\E k \in 1..Len(requests) :
          requests[k].api \in {"listPullRequestReviews", "listPullRequestCommits"}
          /\ requests[k].number = 14

----------------------------------------------------------------------------
(* Both handlers, for what they do with the answer to an approval          *)

\* deliveries of deployment_protection_rule.requested for a pull request event
\* and deliveries of pull_request_review.submitted for alice's dated review
InitCallbacks ==
    \/ /\ InitDPR
       /\ input.payload.event = Some("pull_request")
    \/ /\ InitPRR
       /\ input.payload.review.user.login = "alice"
       /\ IsSome(input.payload.review.submitted_at)

NextCallbacks == NextDPR \/ NextPRR

SpecCallbacks == InitCallbacks /\ [][NextCallbacks]_vars

isReviewFlow == "review" \in DOMAIN input.payload

\* the task of the review handler a reviewWorkflowRun request belongs to
taskOf(request) ==
    LET i == CHOOSE i \in 1..Len(tasks) : tasks[i].run.id = request.run_id
        j == CHOOSE j \in 1..Len(tasks[i].envs) : tasks[i].envs[j].name = request.environment
    IN  tasks[i].envs[j]

failedTasks ==
    UNION {{<<i, j>> : j \in {e \in 1..Len(tasks[i].envs) : tasks[i].envs[e].at = "failed"}} :
              i \in 1..Len(tasks)}

\* C13: an approval answered with HTTP 422 is a no-op in both flows: the
\* deployment protection handler returns normally after it, and in the review
\* handler no task fails and Promise.all is not rejected.
C13_AlreadyApprovedIsNoError ==
    input.api.status = 422 =>
        /\ (~isReviewFlow /\ approvalCallbacks # {}) => pc = "done"
        /\ isReviewFlow =>
              /\ failedTasks = {}
              /\ \A k \in runApprovals : taskOf(requests[k]).at = "done"
              /\ runApprovals # {} => pc \in {"prr.awaitAll", "done"}

\* the approval after a pull request's review is answered 422 and the handler
\* returns
C13_Witness ==
    /\ ~isReviewFlow
    /\ input.api.status = 422
    /\ evaluations = <<"false", "true">>
    /\ Cardinality(approvalCallbacks) = 1
    /\ pc = "done"

\* C14: an approval that fails with another status than 422 is not swallowed:
\* the deployment protection handler ends with the error, and in the review
\* handler the task of that approval fails, so Promise.all never resolves.
C14_OtherFailuresPropagate ==
    (input.api.status >= 400 /\ input.api.status # 422) =>
        /\ (~isReviewFlow /\ approvalCallbacks # {}) => pc = "failed"
        /\ isReviewFlow =>
              /\ \A k \in runApprovals : taskOf(requests[k]).at = "failed"
              /\ runApprovals # {} => pc \in {"prr.awaitAll", "failed"}

\* the approval of one environment is answered 500 while the task of another
\* environment is still under way: the handler has failed
C14_Witness ==
    /\ isReviewFlow
    /\ input.api.status = 500
    /\ Cardinality(runApprovals) = 1
    /\ Cardinality(failedTasks) = 1
    /\ pc = "failed"
    /\ \E i \in 1..Len(tasks) : \E j \in 1..Len(tasks[i].envs) :
          tasks[i].envs[j].at \in {"getCommit", "evaluate", "resume"}

----------------------------------------------------------------------------
(* Claims about what the review handler approves (SpecPRR)                 *)

\* C15: at most one approval is issued per (workflow run, environment), and
\* only for a run whose head_sha is review.commit_id or whose event is
\* pull_request_target, an environment of a pending deployment of that run
\* that the app can approve and that has a name, and a task whose evaluate
\* call returned true.
C15_OneApprovalPerPassingPair ==
    /\ \A k, l \in runApprovals :
          (requests[k].run_id = requests[l].run_id
           /\ requests[k].environment = requests[l].environment) => k = l
    /\ \A k \in runApprovals :
          /\ \/ runOf(requests[k].run_id).head_sha = input.payload.review.commit_id
             \/ runOf(requests[k].run_id).event = "pull_request_target"
          /\ \E d \in Range(PendingDeployments(requests[k].run_id)) :
                /\ d.current_user_can_approve
                /\ d.environment.name = Some(requests[k].environment)
          /\ taskOf(requests[k]).isApproved = "true"

\* run 23 has three pending deployments, one of which the app cannot approve;
\* run 24 is of another commit: exactly production and staging of run 23 are
\* approved
C15_Witness ==
    /\ pc = "done"
    /\ input.api.runs = <<AllRuns[3], AllRuns[4]>>
    /\ {<<requests[k].run_id, requests[k].environment>> : k \in runApprovals}
          = {<<23, "production">>, <<23, "staging">>}
    /\ Cardinality(runApprovals) = 2

----------------------------------------------------------------------------
(* pull_request_review.submitted: the reviews a delivery can carry         *)

renovate == [id |-> 9, login |-> "renovate"]

\* review.body?.startsWith('/deploy')
startsWithDeploy(body) ==
    /\ IsSome(body)
    /\ Len(body[1]) >= Len(deployBody)
    /\ SubSeq(body[1], 1, Len(deployBody)) = deployBody

\* one review by any of the three listed accounts, approved or commented
\* with "/deploy" somewhere in the body
reviewers ==
    NamedRule("reviewers", None,
              Some(Requirement(1, <<"alice", "dave", "renovate">>, <<>>, <<>>)),
              Some(Methods(TRUE, Some(<<deployBody>>))))

\* no review is required when every commit is signed
signedOnly ==
    NamedRule("signedOnly", Some([NoCondition EXCEPT !.has_valid_signatures = TRUE]), None, None)

ReviewConfigs ==
    {PolicyConfig(Some(<<Str("reviewers")>>), <<reviewers, signedOnly>>),
     PolicyConfig(Some(<<Str("signedOnly")>>), <<reviewers, signedOnly>>),
     PolicyConfig(Some(<<Str("reviewers"), Str("signedOnly")>>), <<reviewers, signedOnly>>)}

\* the reviews of sha1, the head of pull request 12, whose author and
\* committer is dave
SubmittedReviews ==
    LET by(user, state, body) ==
            [SubmittedReview(7, user, state, Some(submittedAt)) EXCEPT !.body = body]
    IN  {by(alice, "approved", None),
         by(dave, "approved", None),
         by(alice, "changes_requested", Some(deployBody)),
         by(alice, "dismissed", None),
         by(alice, "commented", None),
         by(alice, "commented", Some(deployBody)),
         by(alice, "commented", Some(<<"o", "k", " ">> \o deployBody)),
         by(carol, "commented", Some(deployBody)),
         [by(renovate, "approved", None) EXCEPT !.user.type = "Bot"]}

InitReviews ==
    /\ config \in ReviewConfigs
    /\ input \in {[payload |-> [review |-> review,
                                pull_request |-> [number |-> 12,
                                                  head |-> [ref |-> "feature", sha |-> "sha1"]]],
                   api |-> [runs |-> runs, status |-> s]] :
                     review \in SubmittedReviews,
                     runs \in {<<>>, <<AllRuns[3]>>, <<AllRuns[5]>>},
                     s \in {204, 500}}
    /\ github = noMembers
    /\ context = None
    /\ pc = "prr.listCommits"
    /\ result = "none"
    /\ calls = {}
    /\ evaluations = <<>>
    /\ requests = <<>>
    /\ tasks = <<>>

\* one delivery of pull_request_review.submitted, over the kinds of review
SpecReviews == InitReviews /\ [][NextPRR]_vars

----------------------------------------------------------------------------
(* Claims about the reviews the review handler acts on (SpecReviews)       *)

\* the commit the review is about, among the commits of the pull request
reviewedCommits ==
    {c \in Range(PullRequestCommits(input.payload.pull_request.number)) :
        c.sha = input.payload.review.commit_id}

bySelf ==
    \E c \in reviewedCommits :
        \/ IsSome(c.author) /\ c.author[1].id = input.payload.review.user.id
        \/ IsSome(c.committer) /\ c.committer[1].id = input.payload.review.user.id

\* C16: a review by the author or the committer of the reviewed commit never
\* leads to an approval, whatever the policy.
C16_NoSelfApprovalByReview == bySelf => runApprovals = {}

\* C17: a review that is neither approved nor commented, and a commented
\* review whose body does not start with "/deploy", never leads to an
\* approval, whatever the policy.
C17_OnlyApprovedOrDeployComment ==
    LET state == toLowerCase(input.payload.review.state)
    IN  (\/ state \notin {"approved", "commented"}
         \/ (state = "commented" /\ ~startsWithDeploy(input.payload.review.body)))
            => runApprovals = {}

\* C18: a review by a bot account leads to no approval and to no API call.
C18_BotsAreIgnored == input.payload.review.user.type = "Bot" => requests = <<>>

----------------------------------------------------------------------------
(* Claims about the first steps of the deployment protection handler       *)
(* (SpecDPR)                                                               *)

\* the payload has no environment, no deployment or no event, or an event
\* other than the four supported ones
rejectedPayload ==
    LET lacks(field) == field = None \/ field = Some("")
    IN  \/ lacks(input.payload.environment)
        \/ input.payload.deployment = None
        \/ lacks(input.payload.event)
        \/ input.payload.event[1] \notin
              {"pull_request", "pull_request_target", "push", "workflow_dispatch"}

\* C19: when the payload lacks environment, deployment or event, or its event
\* is not pull_request, pull_request_target, push or workflow_dispatch, the
\* handler returns without fetching the commit, without evaluating the policy
\* and without issuing the approval callback.
C19_RejectedPayloadIsNoOp ==
    rejectedPayload =>
        /\ requests = <<>>
        /\ evaluations = <<>>
        /\ calls = {}
        /\ pc \in {"dpr.requested", "done"}

\* a delivery for the unsupported event schedule, with pull requests, has
\* returned
C19_Witness ==
    /\ pc = "done"
    /\ input.payload.event = Some("schedule")
    /\ pullRequestsOf(input.payload) # <<>>
    /\ requests = <<>>

\* the requests for the reviews or the commits of a pull request
pullRequestFetches ==
    requestsTo("listPullRequestReviews") \o requestsTo("listPullRequestCommits")

\* C20: the policy is first evaluated on a context that holds only the
\* deployment's own commit and no review, before anything of a pull request
\* is fetched; when that evaluation passes, the approval callback is issued
\* and the handler stops: no second evaluation, and no reviews or commits of
\* a pull request are fetched.
C20_InitialContextFirst ==
    /\ evaluations = <<>> => pullRequestFetches = <<>>
    /\ Len(evaluations) = 1 =>
          /\ context[1].reviews = <<>>
          /\ Len(context[1].commits) = 1
          /\ context[1].commits[1].sha = input.payload.deployment[1].sha
          /\ requests[1] = [api |-> "getCommit", ref |-> input.payload.deployment[1].sha]
    /\ (evaluations # <<>> /\ evaluations[1] = "true") =>
          /\ Len(evaluations) = 1
          /\ pullRequestFetches = <<>>
          /\ \/ pc = "dpr.approve" /\ approvalCallbacks = {}
             \/ pc \in {"done", "failed"} /\ approvalCallbacks = {Len(requests)}

\* the deployment's commit alone passed the policy: the callback went out
\* and the two pull requests of the payload were never looked at
C20_Witness ==
    /\ pc = "done"
    /\ evaluations = <<"true">>
    /\ Len(pullRequestsOf(input.payload)) = 2
    /\ Len(requests) = 2
    /\ requests[2].api = "POST"

----------------------------------------------------------------------------
(* BYPASS_ACTORS: deployments created by listed accounts                    *)

\* String.prototype.split(','): the pieces between the commas, one empty
\* piece for the empty string
RECURSIVE split(_, _)
split(s, sep) ==
    IF \A i \in 1..Len(s) : s[i] # sep THEN <<s>>
    ELSE LET i == CHOOSE i \in 1..Len(s) : s[i] = sep /\ \A j \in 1..(i - 1) : s[j] # sep
         IN  <<SubSeq(s, 1, i - 1)>> \o split(SubSeq(s, i + 1, Len(s)), sep)

\* Number.prototype.toString() of an account id
RECURSIVE idToString(_)
idToString(n) ==
    LET last == <<"0", "1", "2", "3", "4", "5", "6", "7", "8", "9">>[(n % 10) + 1]
    IN  IF n < 10 THEN <<last>> ELSE Append(idToString(n \div 10), last)

\* process.env.BYPASS_ACTORS?.split(',') ?? []
bypassActors(env) == IF IsNone(env.BYPASS_ACTORS) THEN <<>> ELSE split(env.BYPASS_ACTORS[1], ",")

\* bypassActors.includes(deployment.creator.id.toString())
isBypassActor(env, deployment) == Includes(bypassActors(env), idToString(deployment.creator.id))

\* the values of BYPASS_ACTORS: unset, empty, "5" and "5,10,15"
BypassEnvironments ==
    {[BYPASS_ACTORS |-> v] :
        v \in {None, Some(<<>>), Some(<<"5">>), Some(<<"5", ",", "1", "0", ",", "1", "5">>)}}

\* deployments of sha1 created by the accounts 5, 15 and 7
CreatedDeployments ==
    {[id |-> 1, sha |-> "sha1", ref |-> Some("main"),
      creator |-> [id |-> creator, login |-> "creator"]] : creator \in {5, 15, 7}}

InitBypass ==
    /\ config \in DPRConfigs
    /\ input \in {[payload |-> Payload(Some("production"), Some(d), Some("push"), prs),
                   api |-> [commit |-> c, status |-> 204],
                   env |-> e] :
                     d \in CreatedDeployments, e \in BypassEnvironments, c \in DPRCommits,
                     prs \in {None, Some(<<AllPullRequests[1]>>), Some(<<AllPullRequests[2]>>)}}
    /\ github = noMembers
    /\ context = None
    /\ pc = "dpr.requested"
    /\ result = "none"
    /\ calls = {}
    /\ evaluations = <<>>
    /\ requests = <<>>
    /\ tasks = <<>>

\* one delivery of deployment_protection_rule.requested with BYPASS_ACTORS set
SpecBypass == InitBypass /\ [][NextDPR]_vars

\* C21: a deployment whose creator id is listed in BYPASS_ACTORS is approved
\* unconditionally: no policy evaluation takes place and the handler ends
\* with the approval callback issued, whatever the policy; with BYPASS_ACTORS
\* unset or empty an approval callback still needs a passing evaluation.
C21_BypassActorsAreApproved ==
    /\ isBypassActor(input.env, input.payload.deployment[1]) =>
          /\ evaluations = <<>>
          /\ pc \in {"done", "failed"} => approvalCallbacks # {}
    /\ (input.env.BYPASS_ACTORS \in {None, Some(<<>>)} /\ approvalCallbacks # {}) =>
          evaluations[Len(evaluations)] = "true"

----------------------------------------------------------------------------
(* Evaluation of one condition (`if`): the inputs                          *)

\* users / organizations / teams of a condition
Authorization(users, organizations, teams) ==
    [users |-> users, organizations |-> organizations, teams |-> teams]

AuthorizationChoices ==
    {Authorization(<<"dave">>, <<>>, <<>>),
     Authorization(<<>>, <<"acme">>, <<>>),
     Authorization(<<>>, <<>>, <<"acme/security">>),
     Authorization(<<"alice">>, <<"acme">>, <<"acme/security">>)}

\* the commits of the requirement inputs and a signed commit without committer
ConditionCommits == AllCommits \o <<Commit("sha4", Some(dave), None, signed)>>

\* who the organization acme and the team acme/security list
ConditionDirectories ==
    {noMembers,
     Directory(Answer(FALSE, {"dave"}), Answer(FALSE, {"bob"})),
     Directory(Answer(TRUE, {}), Answer(FALSE, {"dave", "bob", "alice"}))}

staging == Some([name |-> "staging"])
mainRef == <<"m", "a", "i", "n">>
featureRef == <<"f", "e", "a", "t", "u", "r", "e">>

EnvironmentConditions ==
    {[matches |-> m, not_matches |-> n] :
        m \in {None, Some(<<>>), Some(<<"production">>), Some(<<"staging", "production">>)},
        n \in {None, Some(<<"production">>), Some(<<"staging">>)}}

RefPatternChoices == {<<mainRef>>, <<(<<"^", "r", "e", "l">>), mainRef>>, <<(<<"/", "^", "f", "/">>)>>}

\* a deployment of sha1 to production whose ref is the given one
deploymentOf(ref) == Some(Deployment(ref, "production", "push", "sha1"))

\* <<rule.if, context, githubContext>>: one condition at a time
ConditionScenes ==
    {<<[NoCondition EXCEPT !.has_valid_signatures_by = Some(a)],
       PolicyContext(production, deploymentOf(Some(mainRef)), commits, <<>>), gh>> :
        a \in AuthorizationChoices, commits \in SubLists(ConditionCommits, MaxCommits),
        gh \in ConditionDirectories}
    \cup
    {<<[NoCondition EXCEPT !.only_has_contributors_in = Some(a)],
       PolicyContext(production, deploymentOf(Some(mainRef)), commits, <<>>), gh>> :
        a \in AuthorizationChoices, commits \in SubLists(ConditionCommits, MaxCommits),
        gh \in ConditionDirectories}
    \cup
    {<<[NoCondition EXCEPT !.environment = Some(e)],
       PolicyContext(env, deploymentOf(Some(mainRef)), <<ConditionCommits[1]>>, <<>>), noMembers>> :
        e \in EnvironmentConditions,
        env \in {None, Some([name |-> ""]), production, staging}}
    \cup
    {<<[NoCondition EXCEPT !.ref_patterns = Some(patterns)],
       PolicyContext(production, deployment, <<ConditionCommits[1]>>, <<>>), noMembers>> :
        patterns \in RefPatternChoices,
        deployment \in {None, deploymentOf(None), deploymentOf(Some(mainRef)),
                        deploymentOf(Some(featureRef))}}

\* the rule "rule" holds the condition and requires nothing
InitConditions ==
    /\ \E scene \in ConditionScenes :
          /\ config = PolicyConfig(Some(<<Str("rule")>>),
                                   <<NamedRule("rule", Some(scene[1]), None, None)>>)
          /\ input = scene[2]
          /\ github = scene[3]
    /\ context = None
    /\ pc = "call"
    /\ result = "none"
    /\ calls = {}
    /\ evaluations = <<>>
    /\ requests = <<>>
    /\ tasks = <<>>

\* evaluate on one named rule that holds one condition
SpecConditions == InitConditions /\ [][NextEvaluate]_vars

----------------------------------------------------------------------------
(* Claims about the conditions (SpecConditions)                            *)

\* the condition of the rule under evaluation
theCondition == config.approval_rules[1].if[1]

\* login is listed, or a member of a listed organization or team whose
\* lookup succeeded
authorized(login, policy) ==
    \/ login \in Range(policy.users)
    \/ \E o \in Range(policy.organizations) :
          ~github.organizations[o].throws /\ login \in github.organizations[o].logins
    \/ \E t \in Range(policy.teams) :
          ~github.teams[t].throws /\ login \in github.teams[t].logins

\* the rule passed its condition (it requires nothing) or was skipped
conditionHeld == namedResult("rule") = "true"
conditionFailed == namedResult("rule") = "skipped" /\ result = "false"

\* C22: has_valid_signatures_by is false when context.commits is empty;
\* otherwise it is true iff every commit is verified, has a committer and
\* that committer's login is authorized by the condition.
C22_SignedByAuthorizedCommitters ==
    (returned /\ IsSome(theCondition.has_valid_signatures_by)) =>
        LET policy == theCondition.has_valid_signatures_by[1]
            expected ==
                /\ input.commits # <<>>
                /\ \A c \in Range(input.commits) :
                      /\ c.verification # None /\ c.verification[1].verified
                      /\ c.committer # None
                      /\ authorized(c.committer[1].login, policy)
        IN  IF expected THEN conditionHeld ELSE conditionFailed

\* C23: only_has_contributors_in is false when context.commits is empty;
\* otherwise it is true iff the author's and the committer's login of every
\* commit are authorized by the condition, so one commit with an unauthorized
\* or absent author or committer makes the rule skip.
C23_OnlyAuthorizedContributors ==
    (returned /\ IsSome(theCondition.only_has_contributors_in)) =>
        LET policy == theCondition.only_has_contributors_in[1]
            expected ==
                /\ input.commits # <<>>
                /\ \A c \in Range(input.commits) :
                      /\ c.author # None /\ authorized(c.author[1].login, policy)
                      /\ c.committer # None /\ authorized(c.committer[1].login, policy)
        IN  IF expected THEN conditionHeld ELSE conditionFailed

\* dave wrote and committed sha1, bob committed sha2: with dave alone
\* authorized the second commit makes the rule skip
C23_Witness ==
    /\ returned
    /\ theCondition.only_has_contributors_in = Some(Authorization(<<"dave">>, <<>>, <<>>))
    /\ input.commits = <<ConditionCommits[1], ConditionCommits[3]>>
    /\ conditionFailed

\* C24: the environment condition is false when the context has no
\* environment name, false when `matches` is given and lacks the name, false
\* when `not_matches` holds the name, hence false when both lists hold the
\* name, and true otherwise.
C24_EnvironmentCondition ==
    (returned /\ IsSome(theCondition.environment)) =>
        LET condition == theCondition.environment[1]
            named == input.environment # None /\ input.environment[1].name # ""
            name == input.environment[1].name
            expected ==
                /\ named
                /\ condition.matches # None => name \in Range(condition.matches[1])
                /\ condition.not_matches # None => name \notin Range(condition.not_matches[1])
        IN  IF expected THEN conditionHeld ELSE conditionFailed

\* production is in `matches` and in `not_matches`: the rule is skipped
C24_Witness ==
    /\ returned
    /\ theCondition.environment =
          Some([matches |-> Some(<<"staging", "production">>), not_matches |-> Some(<<"production">>)])
    /\ input.environment = production
    /\ conditionFailed

\* C25: ref_patterns is true iff deployment.ref is present and matches at
\* least one of the patterns; a rule whose `if` holds ref_patterns is skipped,
\* and approves nothing, when the ref is absent or matches none of them.
C25_RefPatterns ==
    (returned /\ IsSome(theCondition.ref_patterns)) =>
        LET patterns == theCondition.ref_patterns[1]
            expected ==
                /\ input.deployment # None
                /\ input.deployment[1].ref # None
                /\ \E i \in 1..Len(patterns) :
                      regexTest(parsePattern(patterns[i]), input.deployment[1].ref[1])
        IN  IF expected THEN conditionHeld ELSE conditionFailed

----------------------------------------------------------------------------
(* Claims about the reviews that count (SpecReq)                           *)

\* the rule under evaluation in SpecReq
theRule == config.approval_rules[1]

\* the review is about the deployed commit, when the context names one
forDeployedCommit(review) ==
    \/ input.deployment = None
    \/ input.deployment[1].commit.sha = ""
    \/ review.commit_id = input.deployment[1].commit.sha

\* the review is an approval or a comment that the methods accept
acceptedByMethods(review, methods) ==
    /\ methods # None
    /\ \/ methods[1].github_review /\ toLowerCase(review.state) = "approved"
       \/ /\ methods[1].github_review_comment_patterns # None
          /\ toLowerCase(review.state) = "commented"
          /\ review.body # None /\ review.body[1] # <<>>
          /\ \E i \in 1..Len(methods[1].github_review_comment_patterns[1]) :
                LET regex == parsePattern(methods[1].github_review_comment_patterns[1][i])
                IN  ~regex.throws /\ regexTest(regex, review.body[1])

\* the positions of the reviews that survive the candidate filter and whose
\* author is authorized
countedReviews ==
    {k \in 1..Len(input.reviews) :
        /\ forDeployedCommit(input.reviews[k])
        /\ ~byAuthorOrCommitter(input.reviews[k], input.commits)
        /\ acceptedByMethods(input.reviews[k], theRule.methods)
        /\ authorized(input.reviews[k].user.login, theRule.requires[1])}

\* C26: evaluateRequirements passes iff the number of reviews that survive the
\* candidate filter and whose user.login is authorized is >= requires.count;
\* reviews are counted one by one, so two valid reviews of one authorized
\* reviewer satisfy count = 2.
C26_CountsReviewsNotReviewers ==
    returned =>
        \A c \in requiresEntries :
            c.result # "throws" =>
                (c.result = "true" <=> Cardinality(countedReviews) >= theRule.requires[1].count)

\* bob commented "/deploy" and approved, both on the deployed sha1: count 2
\* is met by his two reviews
C26_Witness ==
    /\ returned
    /\ input.reviews = <<AllReviews[3], AllReviews[4]>>
    /\ input.commits = <<AllCommits[1]>>
    /\ input.deployment = onPush
    /\ theRule.methods = Some(Methods(TRUE, Some(<<deployBody>>)))
    /\ theRule.requires = Some(Requirement(2, <<"alice", "bob">>, <<>>, <<>>))
    /\ \E c \in requiresEntries : Len(c.eligible) = 2 /\ c.result = "true"
    /\ result = "true"

\* C27: a review that passed the sha and self-approval filters is a candidate
\* iff methods.github_review is true and its state is approved in any case, or
\* the comment patterns are set, its state is commented, its body is present
\* and matches one of them; with `methods` absent no review is a candidate
\* and a rule that requires a review fails.
C27_CandidateReviews ==
    returned =>
        \A c \in requiresEntries :
            /\ c.result # "throws" =>
                  \A k \in 1..Len(input.reviews) :
                      (/\ forDeployedCommit(input.reviews[k])
                       /\ ~byAuthorOrCommitter(input.reviews[k], input.commits)
                       /\ authorized(input.reviews[k].user.login, theRule.requires[1]))
                      => (Includes(c.eligible, input.reviews[k])
                             <=> acceptedByMethods(input.reviews[k], theRule.methods))
            /\ theRule.methods = None => (c.eligible = <<>> /\ c.result = "false")

\* alice approved the deployed commit but the rule names no methods: nothing
\* counts and the rule fails
C27_Witness ==
    /\ returned
    /\ input.reviews = <<AllReviews[1]>>
    /\ input.commits = <<AllCommits[1]>>
    /\ input.deployment = onPush
    /\ theRule.methods = None
    /\ theRule.requires = Some(Requirement(1, <<"alice", "bob">>, <<>>, <<>>))
    /\ \E c \in requiresEntries : c.eligible = <<>> /\ c.result = "false"

----------------------------------------------------------------------------
(* Evaluation with patterns that are no regular expressions: the inputs     *)

unterminated == <<"/", "[", "/">>     \* "/[/": new RegExp("[") is a SyntaxError
slashBracket == <<"/", "[">>          \* "/[": no closing slash, a literal pattern

PatternMethods ==
    {Methods(github_review, Some(patterns)) :
        github_review \in BOOLEAN,
        patterns \in {<<unterminated>>, <<deployBody, unterminated>>,
                      <<unterminated, deployBody>>, <<slashBracket>>}}

\* reviews that do and do not reach the patterns; dave wrote the deployed sha1
PatternReviews ==
    << Review(1, alice, "APPROVED", None, "sha1"),
       Review(3, bob, "commented", Some(deployBody), "sha1"),
       Review(7, bob, "commented", None, "sha1"),
       Review(8, alice, "commented", Some(deployBody), "sha2"),
       Review(9, dave, "commented", Some(deployBody), "sha1"),
       Review(10, alice, "COMMENTED", Some(<<"o", "k", " ", "/", "[">>), "sha1") >>

InitPatterns ==
    /\ config \in {PolicyConfig(Some(<<Str("rule")>>),
                                <<NamedRule("rule", None,
                                            Some(Requirement(count, <<"alice", "bob", "dave">>,
                                                             <<>>, <<>>)),
                                            Some(methods))>>) :
                      count \in 0..1, methods \in PatternMethods}
    /\ input \in {PolicyContext(production, onPush, <<AllCommits[1]>>, reviews) :
                     reviews \in SubLists(PatternReviews, MaxReviews)}
    /\ github = noMembers
    /\ context = None
    /\ pc = "call"
    /\ result = "none"
    /\ calls = {}
    /\ evaluations = <<>>
    /\ requests = <<>>
    /\ tasks = <<>>

\* evaluate on one rule whose comment patterns hold "/[/" or "/["
SpecPatterns == InitPatterns /\ [][NextEvaluate]_vars

----------------------------------------------------------------------------
(* Claims about invalid patterns (SpecPatterns)                            *)

thePatterns == theRule.methods[1].github_review_comment_patterns[1]

\* the review comes to the comment patterns: it is about the deployed commit,
\* not by a contributor, not taken as an approval, commented, with a body
reachesPatterns(review) ==
    /\ forDeployedCommit(review)
    /\ ~byAuthorOrCommitter(review, input.commits)
    /\ ~(theRule.methods[1].github_review /\ toLowerCase(review.state) = "approved")
    /\ toLowerCase(review.state) = "commented"
    /\ review.body # None /\ review.body[1] # <<>>

\* a pattern that is no regular expression is compiled for this body: no
\* pattern before it in the list matched
compilesInvalid(body) ==
    \E i \in 1..Len(thePatterns) :
        /\ parsePattern(thePatterns[i]).throws
        /\ \A j \in 1..(i - 1) :
              /\ ~parsePattern(thePatterns[j]).throws
              /\ ~regexTest(parsePattern(thePatterns[j]), body)

\* C28 as stated: with "/[" or "/[/" among the comment patterns of the rule,
\* evaluate raises in every context in which the rule is evaluated.
C28_InvalidPatternAlwaysRaises ==
    (returned /\ \E i \in 1..Len(thePatterns) : thePatterns[i] \in {unterminated, slashBracket})
        => result = "throws"

\* C28, amended: evaluate raises, and does not return false, exactly when a
\* pattern that is no regular expression is compiled: the rule requires a
\* review, and some review comes to the comment patterns with no earlier
\* pattern of the list matching its body. "/[" is a literal pattern and
\* never raises.
C28_InvalidPatternRaisesWhenCompiled ==
    returned =>
        (result = "throws" <=>
            /\ theRule.requires[1].count >= 1
            /\ \E k \in 1..Len(input.reviews) :
                  /\ reachesPatterns(input.reviews[k])
                  /\ compilesInvalid(input.reviews[k].body[1]))

\* bob's comment "/deploy" meets "/[/" first: evaluate raises although
\* alice's approval alone would have met the requirement
C28_Witness ==
    /\ returned
    /\ thePatterns = <<unterminated, deployBody>>
    /\ theRule.methods[1].github_review
    /\ theRule.requires[1].count = 1
    /\ input.reviews = <<PatternReviews[1], PatternReviews[2]>>
    /\ result = "throws"

----------------------------------------------------------------------------
(* isUserInAny, one lookup at a time                                       *)
(* input is [user, users, organizations, teams]; every lookup the function *)
(* awaits is appended to requests.                                         *)

\* mutant: the teams are consulted before the organizations
lookupOrder_teamsFirst(organizations, teams) ==
    [i \in 1..Len(teams) |-> [api |-> "listTeamMembers", name |-> teams[i]]]
    \o [i \in 1..Len(organizations) |->
            [api |-> "listOrganizationMembers", name |-> organizations[i]]]

\* the lookups of the two loops, in the order the loops come to them
lookupOrder(organizations, teams) ==
    [i \in 1..Len(organizations) |->
        [api |-> "listOrganizationMembers", name |-> organizations[i]]]
    \o [i \in 1..Len(teams) |-> [api |-> "listTeamMembers", name |-> teams[i]]]

\* await this.isUserInOrganization(user, organization) / this.isUserInTeam(user, team)
isMemberBy(this, user, lookup) ==
    IF lookup.api = "listOrganizationMembers"
    THEN isUserInOrganization(this, user, lookup.name)
    ELSE isUserInTeam(this, user, lookup.name)

LookupNames == [organizations |-> <<"acme", "beta">>, teams |-> <<"acme/security", "acme/ops">>]

\* a list of one or two of two names, in either order, or the empty list
Orderings(names) == {<<>>, <<names[1]>>, <<names[2]>>, names, <<names[2], names[1]>>}

\* what a lookup answers: an error, nobody, alice
LookupDirectories ==
    {[organizations |-> o, teams |-> t] :
        o \in [Range(LookupNames.organizations) ->
                  {Answer(TRUE, {}), Answer(FALSE, {}), Answer(FALSE, {"alice"})}],
        t \in [Range(LookupNames.teams) ->
                  {Answer(TRUE, {}), Answer(FALSE, {}), Answer(FALSE, {"alice"})}]}

InitLookups ==
    /\ config = PolicyConfig(None, <<>>)
    /\ input \in {[user |-> "alice", users |-> users, organizations |-> organizations,
                   teams |-> teams] :
                     users \in {<<>>, <<"bob">>, <<"bob", "alice">>},
                     organizations \in Orderings(LookupNames.organizations),
                     teams \in Orderings(LookupNames.teams)}
    /\ github \in LookupDirectories
    /\ context = None
    /\ pc = "call"
    /\ result = "none"
    /\ calls = {}
    /\ evaluations = <<>>
    /\ requests = <<>>
    /\ tasks = <<>>

\* if (users.includes(user)) return true
IsUserInAny_Users ==
    /\ pc = "call"
    /\ IF Includes(input.users, input.user)
       THEN result' = "true" /\ pc' = "returned"
       ELSE IF lookupOrder(input.organizations, input.teams) = <<>>
       THEN result' = "false" /\ pc' = "returned"
       ELSE result' = result /\ pc' = "lookup"
    /\ UNCHANGED <<config, context, github, input, calls, evaluations, requests, tasks>>

\* one turn of `for (const organization of organizations)` or of
\* `for (const team of teams)`; after the last one, return false
IsUserInAny_Lookup ==
    /\ pc = "lookup"
    /\ LET order == lookupOrder(input.organizations, input.teams)
           lookup == order[Len(requests) + 1]
       IN  /\ requests' = Append(requests, lookup)
           /\ IF isMemberBy([githubContext |-> github], input.user, lookup)
              THEN result' = "true" /\ pc' = "returned"
              ELSE IF Len(requests) + 1 = Len(order)
              THEN result' = "false" /\ pc' = "returned"
              ELSE result' = result /\ pc' = "lookup"
    /\ UNCHANGED <<config, context, github, input, calls, evaluations, tasks>>

NextLookups == IsUserInAny_Users \/ IsUserInAny_Lookup

\* one call of isUserInAny
SpecLookups == InitLookups /\ [][NextLookups]_vars

----------------------------------------------------------------------------
(* Claims about isUserInAny (SpecLookups)                                  *)

\* the lookup answered, and its answer lists the user
listsUser(lookup) ==
    LET answer == IF lookup.api = "listOrganizationMembers"
                  THEN github.organizations[lookup.name] ELSE github.teams[lookup.name]
    IN  ~answer.throws /\ input.user \in answer.logins

\* C29: isUserInAny is true iff the login is in users, or a listed
\* organization lists it, or a listed team whose lookup succeeded lists it;
\* when the login is in users no lookup is made; the organizations are
\* consulted before the teams, each list in its order, and nothing is
\* consulted after the first match.
C29_UsersThenOrganizationsThenTeams ==
    /\ returned =>
          /\ result = "true" <=> authorized(input.user, input)
          /\ isUserInAny([githubContext |-> github], input.user, input.users,
                         input.organizations, input.teams) <=> authorized(input.user, input)
    /\ input.user \in Range(input.users) => requests = <<>>
    /\ \A i, j \in 1..Len(requests) :
          i < j => ~(requests[i].api = "listTeamMembers"
                        /\ requests[j].api = "listOrganizationMembers")
    /\ \A i \in 1..Len(requestsTo("listOrganizationMembers")) :
          requestsTo("listOrganizationMembers")[i].name = input.organizations[i]
    /\ \A i \in 1..Len(requestsTo("listTeamMembers")) :
          requestsTo("listTeamMembers")[i].name = input.teams[i]
    /\ requestsTo("listTeamMembers") # <<>> =>
          Len(requestsTo("listOrganizationMembers")) = Len(input.organizations)
    /\ \A i \in 1..(Len(requests) - 1) : ~listsUser(requests[i])

\* beta lists alice: after acme, which fails, and beta nothing is consulted,
\* though a team is listed that lists her too
C29_Witness ==
    /\ returned
    /\ result = "true"
    /\ input.users = <<"bob">>
    /\ input.organizations = <<"acme", "beta">>
    /\ input.teams = <<"acme/ops", "acme/security">>
    /\ github.organizations["acme"].throws
    /\ listsUser([api |-> "listTeamMembers", name |-> "acme/ops"])
    /\ requests = <<[api |-> "listOrganizationMembers", name |-> "acme"],
                    [api |-> "listOrganizationMembers", name |-> "beta"]>>

----------------------------------------------------------------------------
(* pull_request_review.submitted: evaluations in flight on one evaluator   *)

\* a review by alice is required when every commit is signed by a member of
\* acme; the condition awaits listOrganizationMembers
signedAndReviewed ==
    NamedRule("signedAndReviewed",
              Some([NoCondition EXCEPT !.has_valid_signatures_by = Some(inOrganization)]),
              Some(Requirement(1, <<"alice">>, <<>>, <<>>)), Some(Methods(TRUE, None)))

\* acme lists the committers of pull request 12
committersInAcme == Directory(Answer(FALSE, {"bob", "dave"}), Answer(FALSE, {}))

\* alice approves sha1 at 10:00; run 23 was started from sha1, run 25 is a
\* pull_request_target run of sha9
InitRace ==
    /\ config \in {PolicyConfig(Some(<<Str("signedAndReviewed")>>), <<signedAndReviewed>>),
                   PolicyConfig(Some(<<Str("ruleA")>>), <<ruleA>>)}
    /\ input \in {[payload |-> [review |-> SubmittedReview(7, alice, "approved", Some(submittedAt)),
                                pull_request |-> [number |-> 12,
                                                  head |-> [ref |-> "feature", sha |-> "sha1"]]],
                   api |-> [runs |-> runs, status |-> s]] :
                     runs \in {<<AllRuns[3]>>, <<AllRuns[5]>>, <<AllRuns[3], AllRuns[5]>>},
                     s \in {204, 500}}
    /\ github = committersInAcme
    /\ context = None
    /\ pc = "prr.listCommits"
    /\ result = "none"
    /\ calls = {}
    /\ evaluations = <<>>
    /\ requests = <<>>
    /\ tasks = <<>>

\* one delivery whose runs have different head commits
SpecRace == InitRace /\ [][NextPRR]_vars

\* C30: the evaluations of the runs and environments that are in flight on
\* the one PolicyEvaluator are independent: under every interleaving each
\* evaluate call returns what the evaluation of its own context alone returns.
C30_EvaluationsAreIndependent ==
    \A i \in 1..Len(tasks) : \A j \in 1..Len(tasks[i].envs) :
        tasks[i].envs[j].isApproved # "none" =>
            tasks[i].envs[j].isApproved = evaluate(ThisOf(config, contextOfTask(i, j), github))

----------------------------------------------------------------------------
(* The environment of the per-environment evaluations (review handler)     *)

\* alice must have approved, and for production bob as well
aliceAndForProductionBob ==
    PolicyConfig(Some(<<Obj(Some(<<Str("ruleA"), Str("ruleB")>>), None)>>), <<ruleA, ruleB>>)

aliceOrForProductionBob ==
    PolicyConfig(Some(<<Str("ruleA"), Str("ruleB")>>), <<ruleA, ruleB>>)

InitEnvironments ==
    /\ config \in {aliceAndForProductionBob, aliceOrForProductionBob}
    /\ input \in {[payload |-> [review |-> SubmittedReview(7, user, "approved", Some(submittedAt)),
                                pull_request |-> [number |-> 12,
                                                  head |-> [ref |-> "feature", sha |-> "sha1"]]],
                   api |-> [runs |-> runs, status |-> s]] :
                     user \in {alice, bob},
                     runs \in {<<AllRuns[3]>>, <<AllRuns[2], AllRuns[3]>>},
                     s \in {204, 500}}
    /\ github = noMembers
    /\ context = None
    /\ pc = "prr.listCommits"
    /\ result = "none"
    /\ calls = {}
    /\ evaluations = <<>>
    /\ requests = <<>>
    /\ tasks = <<>>

\* one delivery under a policy with a rule for production only
SpecEnvironments == InitEnvironments /\ [][NextPRR]_vars

\* the context of a task with the name of its environment as context.environment
withEnvironment(i, j) ==
    [contextOfTask(i, j) EXCEPT !.environment = Some([name |-> tasks[i].envs[j].name])]

\* C31: each per-environment evaluation of the review handler is decided
\* with the pending deployment's environment name as the environment of the
\* context, so a rule written for that environment applies to it.
C31_EnvironmentNameInjected ==
    \A i \in 1..Len(tasks) : \A j \in 1..Len(tasks[i].envs) :
        tasks[i].envs[j].isApproved # "none" =>
            tasks[i].envs[j].isApproved = evaluate(ThisOf(config, withEnvironment(i, j), github))

----------------------------------------------------------------------------
(* Reviews by contributors in the deployment-protection flow (SpecDPR)     *)

\* the pull request of the last evaluation, when it was not the initial one
evaluatedPullRequest == pullRequestsOf(input.payload)[Len(evaluations) - 1]

\* the accounts that wrote or committed a commit of the pull request
contributorIds(number) ==
    {c.author[1].id : c \in {c \in Range(PullRequestCommits(number)) : IsSome(c.author)}}
    \cup {c.committer[1].id :
             c \in {c \in Range(PullRequestCommits(number)) : IsSome(c.committer)}}

\* the context of the last evaluation without the reviews of contributors
withoutContributorReviews ==
    [context[1] EXCEPT !.reviews =
        SelectSeq(context[1].reviews,
                  LAMBDA review : review.user.id \notin contributorIds(evaluatedPullRequest.number))]

\* C32: in the deployment-protection flow a review by the author or the
\* committer of any commit of the pull request is never counted: a pull
\* request passes, and the approval callback follows, only if it also passes
\* with the reviews of its contributors left out.
C32_ContributorReviewsNeverApprove ==
    (Len(evaluations) >= 2 /\ evaluations[Len(evaluations)] = "true") =>
        evaluate(ThisOf(config, withoutContributorReviews, github)) = "true"

----------------------------------------------------------------------------
(* Runs of another commit than the reviewed one (SpecRace)                 *)

\* the context of a task with no review in it
withoutReviews(i, j) == [contextOfTask(i, j) EXCEPT !.reviews = <<>>]

\* C33: for a workflow run whose head commit is not the reviewed commit (a
\* run kept for its event pull_request_target) the submitted review is never
\* counted: a deployment of such a run is approved only when the policy
\* passes without any review.
C33_ReviewNeverCountsForOtherHead ==
    \A i \in 1..Len(tasks) : \A j \in 1..Len(tasks[i].envs) :
        (/\ tasks[i].run.head_sha # input.payload.review.commit_id
         /\ tasks[i].envs[j].isApproved = "true") =>
            evaluate(ThisOf(config, withoutReviews(i, j), github)) = "true"

----------------------------------------------------------------------------
(* Instructional comments (handleDeploymentProtectionRule of                *)
(* src/handlers/deployment-protection-rule.ts)                             *)

MaxDeliveries == 2    \* deliveries of deployment_protection_rule in flight

\* the first characters of the instructional text
instructionalComment == <<"O", "n", "e">>

\* apps.getAuthenticated(): the app itself
theApp == [id |-> 456]

\* an issue comment as issues.listComments returns it; times count requests
IssueComment(body, app, created_at, updated_at) ==
    [body |-> body, performed_via_github_app |-> app,
     created_at |-> created_at, updated_at |-> updated_at]

\* String.prototype.startsWith
startsWith(s, prefix) == Len(s) >= Len(prefix) /\ SubSeq(s, 1, Len(prefix)) = prefix

\* mutant: an edited comment is taken for the app's own
filterIssueComments_edited(comments, appId, prefix) ==
    SelectSeq(comments,
              LAMBDA c : /\ startsWith(c.body, prefix)
                         /\ IsSome(c.performed_via_github_app)
                         /\ c.performed_via_github_app[1].id = appId)

\* comments.filter((c) => c.body.startsWith(startsWith) &&
\*     c.performed_via_github_app?.id === appId && c.created_at === c.updated_at)
filterIssueComments(comments, appId, prefix) ==
    SelectSeq(comments,
              LAMBDA c : /\ startsWith(c.body, prefix)
                         /\ IsSome(c.performed_via_github_app)
                         /\ c.performed_via_github_app[1].id = appId
                         /\ c.created_at = c.updated_at)

\* reviews.find(...): the reviews that let the deployment go
deployReviews(reviews, deployment) ==
    SelectSeq(reviews,
              LAMBDA review : /\ review.state \in {"approved", "commented"}
                              /\ review.commit_id = Some(deployment.sha)
                              /\ review.user[1].id # deployment.creator.id
                              /\ startsWithDeploy(review.body))

\* what the issue of pull request 12 holds before the deliveries: nothing, the
\* app's comment, the app's comment edited, the same text by another app,
\* another text by the app, the app's comment with more text after it
InitialComments ==
    {<<>>,
     <<IssueComment(instructionalComment, Some(theApp), 0, 0)>>,
     <<IssueComment(instructionalComment, Some(theApp), 0, 1)>>,
     <<IssueComment(instructionalComment, Some([id |-> 99]), 0, 0)>>,
     <<IssueComment(instructionalComment, None, 0, 0)>>,
     <<IssueComment(<<"L", "G", "T", "M">>, Some(theApp), 0, 0)>>,
     <<IssueComment(instructionalComment \o <<"!">>, Some(theApp), 0, 0)>>}

\* the reviews of the pull requests: none, or on 12 carol's "/deploy" comment
DeployReviews ==
    {<<>>,
     <<ApiReview(8, Some(apiUser(carol)), "commented", Some(deployBody), Some("sha1"), None)>>,
     <<ApiReview(8, Some(apiUser(carol)), "APPROVED", Some(deployBody), Some("sha1"), None)>>}

\* the comments of an issue: those it held and those created since
issueComments(number) ==
    LET created == SelectSeq([k \in 1..Len(requests) |-> [k |-> k, request |-> requests[k]]],
                             LAMBDA e : /\ e.request.api = "createIssueComment"
                                        /\ e.request.number = number)
    IN  (IF number = 12 THEN input.api.comments ELSE <<>>)
        \o [n \in 1..Len(created) |->
               IssueComment(created[n].request.body, Some(theApp), created[n].k, created[n].k)]

InitComments ==
    /\ config = PolicyConfig(None, <<>>)
    /\ input \in {[payload |-> Payload(Some("production"), Some(d), Some(event), prs),
                   env |-> [BYPASS_ACTORS |-> Some(<<"5">>)],
                   api |-> [reviews |-> reviews, comments |-> comments]] :
                     d \in {d \in CreatedDeployments : d.creator.id \in {5, 7}},
                     event \in {"pull_request", "schedule"},
                     prs \in {None, Some(<<AllPullRequests[2]>>),
                              Some(<<AllPullRequests[2], AllPullRequests[3]>>)},
                     reviews \in DeployReviews, comments \in InitialComments}
    /\ github = noMembers
    /\ context = None
    /\ pc = "deliveries"
    /\ result = "none"
    /\ calls = {}
    /\ evaluations = <<>>
    /\ requests = <<>>
    /\ tasks \in {[d \in 1..n |-> [at |-> "requested", pull |-> 0, listed |-> <<>>]] :
                     n \in 1..MaxDeliveries}

\* the pull request a delivery is at
pullOf(d) == input.payload.pull_requests[1][tasks[d].pull]

\* where a delivery goes after pull request number `pull` of its payload
nextPull(pull) ==
    IF IsSome(input.payload.pull_requests) /\ pull < Len(input.payload.pull_requests[1])
    THEN "listPullRequestReviews" ELSE "done"

\* The deliveries share the log `requests`; it holds what they write at
\* GitHub, the approval and the comments, in the order GitHub takes them.
\* What a delivery reads is kept with the delivery.

\* the checks of the payload and of the bypass actors
HDPR_Requested ==
    \E d \in 1..Len(tasks) :
        /\ tasks[d].at = "requested"
        /\ LET payload == input.payload
               ignored == \/ IsNone(payload.deployment) \/ missing(payload.event)
                          \/ missing(payload.environment)
                          \/ payload.event[1] \notin {"pull_request", "pull_request_target", "push"}
           IN  IF ignored
               THEN /\ tasks' = [tasks EXCEPT ![d].at = "done"]
                    /\ UNCHANGED requests
               ELSE IF isBypassActor(input.env, payload.deployment[1])
               THEN /\ requests' = Append(requests,
                                          [api |-> "POST", url |-> payload.deployment_callback_url,
                                           environment_name |-> payload.environment[1],
                                           state |-> "approved"])
                    /\ tasks' = [tasks EXCEPT ![d].at = "done"]
               ELSE /\ tasks' = [tasks EXCEPT ![d].at = nextPull(0), ![d].pull = 1]
                    /\ UNCHANGED requests
        /\ UNCHANGED <<config, context, github, input, pc, result, calls, evaluations>>

\* listPullRequestReviews and what follows its answer: the approval when a
\* deploy review is found, the listing of the issue's comments otherwise
HDPR_ListPullRequestReviews ==
    \E d \in 1..Len(tasks) :
        /\ tasks[d].at = "listPullRequestReviews"
        /\ LET reviews == IF pullOf(d).number = 12 THEN input.api.reviews ELSE <<>>
               found == deployReviews(reviews, input.payload.deployment[1])
           IN  IF found # <<>>
               THEN /\ requests' = Append(requests,
                                          [api |-> "POST",
                                           url |-> input.payload.deployment_callback_url,
                                           environment_name |-> input.payload.environment[1],
                                           state |-> "approved"])
                    /\ tasks' = [tasks EXCEPT ![d].at = "done"]
               ELSE /\ tasks' = [tasks EXCEPT ![d].at = "listIssueComments"]
                    /\ UNCHANGED requests
        /\ UNCHANGED <<config, context, github, input, pc, result, calls, evaluations>>

\* GitHubClient.listIssueComments answers with the comments of the issue
HDPR_ListIssueComments ==
    \E d \in 1..Len(tasks) :
        /\ tasks[d].at = "listIssueComments"
        /\ tasks' = [tasks EXCEPT ![d].at = "createIssueComment",
                                  ![d].listed = issueComments(pullOf(d).number)]
        /\ UNCHANGED <<config, context, github, input, pc, result, calls, evaluations, requests>>

\* if (comments.length === 0) createIssueComment; then the next pull request
HDPR_CreateIssueComment ==
    \E d \in 1..Len(tasks) :
        /\ tasks[d].at = "createIssueComment"
        /\ requests' =
              IF filterIssueComments(tasks[d].listed, theApp.id, instructionalComment) = <<>>
              THEN Append(requests, [api |-> "createIssueComment", number |-> pullOf(d).number,
                                     body |-> instructionalComment, delivery |-> d])
              ELSE requests
        /\ tasks' = [tasks EXCEPT ![d].at = nextPull(tasks[d].pull),
                                  ![d].pull = IF nextPull(tasks[d].pull) = "done"
                                              THEN tasks[d].pull ELSE tasks[d].pull + 1]
        /\ UNCHANGED <<config, context, github, input, pc, result, calls, evaluations>>

NextComments ==
    \/ HDPR_Requested
    \/ HDPR_ListPullRequestReviews
    \/ HDPR_ListIssueComments
    \/ HDPR_CreateIssueComment

\* deliveries of deployment_protection_rule.requested for one pull request
SpecComments == InitComments /\ [][NextComments]_vars

\* a comment the handler takes for its own: the instructional text at the
\* start of the body, made by the app, never edited
isInstructional(c) ==
    /\ startsWith(c.body, instructionalComment)
    /\ c.performed_via_github_app = Some(theApp)
    /\ c.created_at = c.updated_at

instructionalComments(number) ==
    {k \in 1..Len(issueComments(number)) : isInstructional(issueComments(number)[k])}

\* C34 as claimed: under any interleaving of the deliveries for a pull
\* request at most one instructional comment exists on its issue.
C34_AtMostOneInstructionalComment ==
    \A pull \in Range(AllPullRequests) : Cardinality(instructionalComments(pull.number)) <= 1

\* C34, amended: a delivery creates the instructional comment exactly when the
\* listing of the issue's comments it fetched holds no comment of the app with
\* that text and unedited; deliveries that fetched their listings before any
\* of them created the comment each create one, so an issue holds at most as
\* many instructional comments as there were deliveries, and at most one when
\* it held one before.
C34_OneCommentPerStaleListing ==
    /\ [](\A pull \in Range(AllPullRequests) :
             /\ Cardinality(instructionalComments(pull.number)) <= Len(tasks)
             /\ (pull.number = 12 /\ \E k \in 1..Len(input.api.comments) :
                                        isInstructional(input.api.comments[k]))
                    => Cardinality(instructionalComments(pull.number)) = 1)
    /\ [][\A d \in 1..Len(tasks) :
             (tasks[d].at = "createIssueComment" /\ tasks'[d].at # "createIssueComment") =>
                 /\ Len(requests') > Len(requests) <=>
                       ~\E k \in 1..Len(tasks[d].listed) : isInstructional(tasks[d].listed[k])
                 /\ Len(requests') > Len(requests) =>
                       requests'[Len(requests')] =
                           [api |-> "createIssueComment", number |-> pullOf(d).number,
                            body |-> instructionalComment, delivery |-> d]]_vars

\* two deliveries for pull request 12, whose issue held no comment: the first
\* created the comment, the second listed it and created none
C34_Witness ==
    /\ Len(tasks) = 2
    /\ \A d \in 1..2 : tasks[d].at = "done"
    /\ input.api.comments = <<>>
    /\ \E d \in 1..2 : Len(tasks[d].listed) = 1
    /\ Len(requestsTo("createIssueComment")) = 1
    /\ Cardinality(instructionalComments(12)) = 1

----------------------------------------------------------------------------
(* The evaluation of the review before the workflow runs (SpecPRR)         *)

\* C35: the review handler first evaluates the policy on the commits of the
\* pull request and the one submitted review, with no deployment and no
\* environment; unless that evaluation returns true nothing is asked about
\* workflow runs, and a (run, environment) pair is approved only if this
\* evaluation and the pair's own evaluation both returned true.
C35_ReviewGateBeforeRuns ==
    /\ evaluations = <<>> => requestsTo("listWorkflowRuns") = <<>>
    /\ (Len(evaluations) = 1 /\ tasks = <<>>) =>
          /\ IsNone(context[1].deployment)
          /\ IsNone(context[1].environment)
          /\ Len(context[1].reviews) = 1
          /\ context[1].reviews[1].id = input.payload.review.id
          /\ [n \in 1..Len(context[1].commits) |-> context[1].commits[n].sha]
                = [n \in 1..Len(PullRequestCommits(input.payload.pull_request.number)) |->
                      PullRequestCommits(input.payload.pull_request.number)[n].sha]
    /\ (evaluations # <<>> /\ evaluations[1] # "true") =>
          /\ Len(evaluations) = 1
          /\ tasks = <<>>
          /\ \A k \in 1..Len(requests) : requests[k].api = "listPullRequestCommits"
    /\ \A k \in runApprovals :
          /\ evaluations[1] = "true"
          /\ taskOf(requests[k]).isApproved = "true"

\* dave approved the pull request dave wrote: the first evaluation is false
\* and the handler is done, with a run waiting that would have been kept
C35_Witness ==
    /\ pc = "done"
    /\ evaluations = <<"false">>
    /\ input.payload.review.user.login = "dave"
    /\ filteredWorkflowRuns(input.api.runs, input.payload.review) # <<>>
    /\ Len(requests) = 1

----------------------------------------------------------------------------
(* Commits and reviews with optional data absent                           *)

\* commits by dave: complete, without author, without committer, without
\* verification, and with none of the three
PartialCommits ==
    << Commit("sha1", Some(dave), Some(dave), signed),
       Commit("sha5", None, Some(dave), signed),
       Commit("sha4", Some(dave), None, signed),
       Commit("sha6", Some(dave), Some(dave), None),
       Commit("sha3", None, None, None) >>

\* comments and an approval of sha1, with and without a body
PartialReviews ==
    << Review(1, alice, "commented", None, "sha1"),
       Review(3, bob, "commented", Some(deployBody), "sha1"),
       Review(7, alice, "approved", None, "sha1") >>

daveOrAcme == Authorization(<<"dave">>, <<"acme">>, <<"acme/security">>)

\* <<rule, context, githubContext>>
PartialScenes ==
    {<<NamedRule("rule", Some(condition), None, None),
       PolicyContext(production, onPush, commits, <<>>), gh>> :
        condition \in {[NoCondition EXCEPT !.has_valid_signatures_by = Some(daveOrAcme)],
                       [NoCondition EXCEPT !.only_has_contributors_in = Some(daveOrAcme)]},
        commits \in SubLists(PartialCommits, MaxCommits) \ {<<>>},
        gh \in {noMembers, Directory(Answer(TRUE, {}), Answer(FALSE, {"alice"}))}}
    \cup
    {<<NamedRule("rule", None, Some(Requirement(1, <<"alice", "bob">>, <<>>, <<>>)), methods),
       PolicyContext(production, onPush, <<PartialCommits[5]>>, reviews), noMembers>> :
        methods \in {Some(Methods(FALSE, Some(<<deployBody>>))),
                     Some(Methods(TRUE, Some(<<deployBody>>)))},
        reviews \in SubLists(PartialReviews, MaxReviews)}

\* evaluate on a context with data absent, or a delivery of
\* pull_request_review.submitted for pull request 12 or 13, whose commit has
\* neither author nor committer nor verification
InitPartial ==
    /\ \/ /\ \E scene \in PartialScenes :
                /\ config = PolicyConfig(Some(<<Str("rule")>>), <<scene[1]>>)
                /\ input = scene[2]
                /\ github = scene[3]
          /\ pc = "call"
       \/ /\ config \in {PolicyConfig(Some(<<Str("ruleA")>>), <<ruleA>>),
                         PolicyConfig(Some(<<Str("signed")>>), <<signedRule>>)}
          /\ input \in {[payload |-> [review |-> [SubmittedReview(7, alice, state, at)
                                                     EXCEPT !.body = body],
                                      pull_request |-> [number |-> number,
                                                        head |-> [ref |-> "feature",
                                                                  sha |-> "sha1"]]],
                         api |-> [runs |-> <<AllRuns[3], AllRuns[5]>>, status |-> s]] :
                           state \in {"approved", "commented"},
                           at \in {None, Some(submittedAt)},
                           body \in {None, Some(deployBody)},
                           number \in {12, 13}, s \in {204, 500}}
          /\ github = noMembers
          /\ pc = "prr.listCommits"
    /\ context = None
    /\ result = "none"
    /\ calls = {}
    /\ evaluations = <<>>
    /\ requests = <<>>
    /\ tasks = <<>>

NextPartial == NextEvaluate \/ NextPRR

SpecPartial == InitPartial /\ [][NextPartial]_vars

\* the commit lacks what the condition needs
lacksSignature(commit) == commit.verification = None \/ commit.committer = None
lacksContributor(commit) == commit.author = None \/ commit.committer = None

----------------------------------------------------------------------------
(* Rules of no known format (SpecTree)                                     *)

\* an object with neither `and` nor `or`
otherShape == Obj(None, None)

\* C37: a rule that is neither a name, an {and} group, an {or} group nor a
\* list evaluates to fail, not skip: an AND that holds it fails, and
\* policy.approval made of it alone makes evaluate false.
C37_InvalidShapeFails ==
    returned =>
        /\ \A c \in ruleEntries : c.rule = otherShape => c.result = "false"
        /\ \A c \in ruleEntries :
              (/\ isAndGroup(c.rule)
               /\ Includes(membersOf(c.rule), otherShape)
               /\ noneThrows(membersOf(c.rule))) => c.result = "false"
        /\ approvalOf(config) = <<otherShape>> => result = "false"

\* alice approved and ruleA passes, but the AND holds an object of no known
\* format next to it: the AND fails and so does evaluate
C37_Witness ==
    /\ returned
    /\ approvalOf(config) = <<Obj(Some(<<Str("ruleA"), otherShape>>), None)>>
    /\ resultOf(Str("ruleA")) = "true"
    /\ resultOf(approvalOf(config)[1]) = "false"
    /\ result = "false"

----------------------------------------------------------------------------
(* The order of the members of a rule list                                 *)

\* groups inside groups, with members that pass, fail, are skipped or unknown
NestedApprovals ==
    {<<Obj(Some(<<Str("ruleA"), Str("ruleB")>>), None)>>,
     <<Obj(None, Some(<<Str("missing"), Str("ruleA")>>))>>,
     <<Arr(<<Str("ruleA"), Str("ruleB")>>), Str("ruleB")>>,
     <<Obj(Some(<<Str("ruleA"), Obj(None, Some(<<Str("ruleB"), Str("missing")>>))>>), None)>>,
     <<Obj(Some(<<Str("ruleB"), Obj(None, None)>>), None), Str("ruleA")>>,
     <<Obj(Some(<<Str("ruleB"), Str("ruleA")>>), Some(<<Str("ruleA"), Str("missing")>>)),
       Arr(<<Str("ruleB"), Arr(<<>>)>>)>>}

\* every policy.approval of fewer than MaxNodes rules, and the nested ones
InitOrder ==
    /\ config \in {PolicyConfig(Some(a), TreeRules) :
                      a \in UNION {Forests(n) : n \in 0..(MaxNodes - 1)} \cup NestedApprovals}
    /\ input \in TreeContexts
    /\ github = noMembers
    /\ context = None
    /\ pc = "call"
    /\ result = "none"
    /\ calls = {}
    /\ evaluations = <<>>
    /\ requests = <<>>
    /\ tasks = <<>>

SpecOrder == InitOrder /\ [][NextEvaluate]_vars

\* the lists with the members of `list` in another order
permutationsOf(list) ==
    {[i \in 1..Len(list) |-> list[p[i]]] :
        p \in {q \in [1..Len(list) -> 1..Len(list)] :
                  \A i, j \in 1..Len(list) : q[i] = q[j] => i = j}}

RECURSIVE reorderedRule(_), reorderedList(_)

\* the rules that differ from `rule` in the order of members only, at any depth
reorderedRule(rule) ==
    IF rule.t = "string" THEN {rule}
    ELSE IF rule.t = "array" THEN {Arr(l) : l \in reorderedList(rule.items)}
    ELSE {Obj(a, o) :
             a \in IF IsSome(rule.and) THEN {Some(l) : l \in reorderedList(rule.and[1])}
                   ELSE {None},
             o \in IF IsSome(rule.or) THEN {Some(l) : l \in reorderedList(rule.or[1])}
                   ELSE {None}}

reorderedList(list) ==
    UNION {{l \in [1..Len(q) -> UNION {reorderedRule(q[i]) : i \in 1..Len(q)}] :
               \A i \in 1..Len(q) : l[i] \in reorderedRule(q[i])} :
           q \in permutationsOf(list)}

\* C38: the result of evaluate does not depend on the order of the members
\* of policy.approval or of any nested group: under every reordering evaluate
\* returns the same value, and throws iff it threw.
C38_OrderOfMembersIsIrrelevant ==
    returned =>
        \A approval \in reorderedList(approvalOf(config)) :
            evaluate(ThisOf([config EXCEPT !.policy.approval = Some(approval)], input, github))
                = result

\* two members with different outcomes: ruleA fails, ruleB passes, evaluate
\* is true whichever comes first
C38_Witness ==
    /\ returned
    /\ approvalOf(config) = <<Arr(<<Str("ruleA"), Str("ruleB")>>), Str("ruleB")>>
    /\ resultOf(Str("ruleA")) = "false"
    /\ resultOf(Str("ruleB")) = "true"
    /\ result = "true"
    /\ <<Str("ruleB"), Arr(<<Str("ruleB"), Str("ruleA")>>)>> \in reorderedList(approvalOf(config))

----------------------------------------------------------------------------
(* One more review in the context                                          *)

\* rule trees over ruleA and ruleB, or one rule with its requirements and
\* methods over the reviews of the requirement inputs
InitMonotone ==
    \/ InitOrder
    \/ /\ \E scene \in SceneChoices, requires \in RequiresChoices, methods \in MethodsChoices :
             /\ config = PolicyConfig(Some(<<Str("rule")>>),
                                      <<NamedRule("rule", scene[1], requires, methods)>>)
             /\ input \in {PolicyContext(scene[2], scene[3], <<AllCommits[1]>>, reviews) :
                              reviews \in SubLists(AllReviews, MaxReviews)}
       /\ github = noMembers
       /\ context = None
       /\ pc = "call"
       /\ result = "none"
       /\ calls = {}
       /\ evaluations = <<>>
       /\ requests = <<>>
       /\ tasks = <<>>

SpecMonotone == InitMonotone /\ [][NextEvaluate]_vars

\* the reviews that may be added: those of the requirement inputs and a
\* second approval by alice
MoreReviews == Range(AllReviews) \cup {approvedBy(8, alice), approvedBy(9, dave)}

\* the context of the call with `review` put in at position n of its reviews
withReview(review, n) ==
    [input EXCEPT !.reviews =
        SubSeq(input.reviews, 1, n - 1) \o <<review>> \o SubSeq(input.reviews, n, Len(input.reviews))]

\* C39: evaluate is monotone in the reviews: when it returned true, it does
\* not return false with one more review in the context, wherever the review
\* is put in; if it returns at all, it returns true.
C39_MoreReviewsNeverRevoke ==
    (returned /\ result = "true") =>
        \A review \in MoreReviews : \A n \in 1..(Len(input.reviews) + 1) :
            evaluate(ThisOf(config, withReview(review, n), github)) \in {"true", "throws"}

\* a rule that asks for reviews passed on the reviews of the context, and
\* passes again with a review by the author of the commit added in front
C39_Witness ==
    /\ returned
    /\ result = "true"
    /\ \E c \in requiresEntries : c.result = "true"
    /\ input.reviews # <<>>
    /\ evaluate(ThisOf(config, withReview(approvedBy(9, dave), 1), github)) = "true"

----------------------------------------------------------------------------
(* The app: configuration is loaded before either handler runs             *)

\* the configuration context.config falls back to
DEFAULT_CONFIG == PolicyConfig(Some(<<>>), <<>>)

\* mutant: only a null configuration keeps the handlers from running
getAppConfig_nullOnly(loaded) ==
    loaded

\* null when no configuration is found or policy.approval is missing or
\* empty, else the configuration
getAppConfig(loaded) ==
    IF IsNone(loaded) THEN None
    ELSE LET approvalRules == loaded[1].policy.approval
         IN  IF IsNone(approvalRules) \/ Len(approvalRules[1]) = 0
             THEN None
             ELSE loaded

\* what context.config answers: null, the default, a file without
\* policy.approval, with an empty one, or with rules
LoadedConfigs ==
    {None,
     Some(DEFAULT_CONFIG),
     Some(PolicyConfig(None, <<ruleA>>)),
     Some(PolicyConfig(Some(<<>>), <<ruleA>>)),
     Some(PolicyConfig(Some(<<Str("ruleA")>>), <<ruleA>>)),
     Some(PolicyConfig(Some(<<Str("signed")>>), <<signedRule>>))}

\* a delivery of either webhook; `config` is the default until one is loaded
InitApp ==
    /\ config = DEFAULT_CONFIG
    /\ \/ /\ input \in {[payload |-> p, action |-> a,
                         api |-> [commit |-> c, status |-> s, config |-> loaded]] :
                           p \in DPRPayloads, a \in {"requested", "other"},
                           c \in {commit \in DPRCommits : commit # None},
                           s \in {204, 500}, loaded \in LoadedConfigs}
          /\ pc = "app.deployment_protection_rule"
       \/ /\ input \in {[payload |-> p, action |-> a,
                         api |-> [runs |-> runs, status |-> s, config |-> loaded]] :
                           p \in PRRPayloads, a \in {"submitted", "other"},
                           runs \in {<<>>, <<AllRuns[3]>>, <<AllRuns[2], AllRuns[3]>>},
                           s \in {204, 500}, loaded \in LoadedConfigs}
          /\ pc = "app.pull_request_review"
    /\ github = noMembers
    /\ context = None
    /\ result = "none"
    /\ calls = {}
    /\ evaluations = <<>>
    /\ requests = <<>>
    /\ tasks = <<>>

\* app.on('deployment_protection_rule.requested', ...)
App_DeploymentProtectionRuleRequested ==
    /\ pc = "app.deployment_protection_rule"
    /\ IF input.action # "requested"
       THEN /\ pc' = "done"
            /\ UNCHANGED <<config, requests>>
       ELSE /\ requests' = Append(requests, [api |-> "config", name |-> "deploynaut.yml"])
            /\ IF IsNone(getAppConfig(input.api.config))
               THEN /\ pc' = "done"
                    /\ UNCHANGED config
               ELSE /\ config' = getAppConfig(input.api.config)[1]
                    /\ pc' = "dpr.requested"
    /\ UNCHANGED <<context, github, input, result, calls, evaluations, tasks>>

\* app.on('pull_request_review.submitted', ...)
App_PullRequestReviewSubmitted ==
    /\ pc = "app.pull_request_review"
    /\ IF input.action # "submitted"
       THEN /\ pc' = "done"
            /\ UNCHANGED <<config, requests>>
       ELSE /\ requests' = Append(requests, [api |-> "config", name |-> "deploynaut.yml"])
            /\ IF IsNone(getAppConfig(input.api.config))
               THEN /\ pc' = "done"
                    /\ UNCHANGED config
               ELSE /\ config' = getAppConfig(input.api.config)[1]
                    /\ pc' = "prr.listCommits"
    /\ UNCHANGED <<context, github, input, result, calls, evaluations, tasks>>

NextApp ==
    \/ App_DeploymentProtectionRuleRequested
    \/ App_PullRequestReviewSubmitted
    \/ NextDPR
    \/ NextPRR

\* one delivery of either webhook to the app
SpecApp == InitApp /\ [][NextApp]_vars

\* context.config found nothing, or what it found has no rule in policy.approval
withoutPolicy ==
    \/ IsNone(input.api.config)
    \/ approvalOf(input.api.config[1]) = <<>>

\* C40: when no configuration is found, or the loaded one has an empty or
\* missing policy.approval, neither handler runs: the delivery ends after the
\* configuration was read, with no other request (no commit, review or
\* workflow-run read, no approval callback, no run approval) and no evaluation.
C40_NoPolicyNoHandler ==
    withoutPolicy =>
        /\ pc \in {"app.deployment_protection_rule", "app.pull_request_review", "done"}
        /\ \A k \in 1..Len(requests) : requests[k].api = "config"
        /\ approvalCallbacks = {}
        /\ runApprovals = {}
        /\ evaluations = <<>>
        /\ calls = {}
        /\ result = "none"

\* a delivery whose configuration file has an empty policy.approval ended
\* after the configuration was read
C40_Witness ==
    /\ IsSome(input.api.config)
    /\ input.api.config[1] # DEFAULT_CONFIG
    /\ input.api.config[1].policy.approval = Some(<<>>)
    /\ pc = "done"
    /\ requests = <<[api |-> "config", name |-> "deploynaut.yml"]>>

====
